---- MODULE Spec2Model ----
(***************************************************************************)
(* A model of the AI math tutor API: the Solver's fallback chain           *)
(* (infrastructure/ai.ts), the cache adapter (infrastructure/redis.ts),    *)
(* the repositories and the question workflow (services/questionService).  *)
(*                                                                         *)
(* The created_at and updated_at columns and the created_at of a response  *)
(* are left out: no operation reads them but the ORDER BY of the list      *)
(* queries, which is insertion order.                                      *)
(*                                                                         *)
(* Text is a sequence of strings.  A text that the code inspects           *)
(* (includes, match, toLowerCase, trim, base64) is a sequence of           *)
(* one-character strings; a literal that the code only passes along is a   *)
(* one-element sequence holding the whole literal.                         *)
(***************************************************************************)
EXTENDS Integers, Sequences, FiniteSets, TLC

VARIABLES
    users,          \* rows of table users: the set of user ids
    questions,      \* rows of table questions: id -> row
    answers,        \* rows of table answers, in insertion order
    cache,          \* the Redis keyspace: key -> JSON envelope {data, expires_at}
    isConnected,    \* RedisService.isConnected
    isInitialized,  \* AIService.isInitialized (a cloud client is configured)
    now,            \* Date.now(), in milliseconds
    calls,          \* the service calls started so far, each with its position
    solver          \* one solveMathProblem call, stepped through its backends

vars == <<users, questions, answers, cache, isConnected, isInitialized, now, calls, solver>>

----------------------------------------------------------------------------
(* Characters and strings *)

LowerSeq == <<"a","b","c","d","e","f","g","h","i","j","k","l","m",
              "n","o","p","q","r","s","t","u","v","w","x","y","z">>
UpperSeq == <<"A","B","C","D","E","F","G","H","I","J","K","L","M",
              "N","O","P","Q","R","S","T","U","V","W","X","Y","Z">>
DigitSeq == <<"0","1","2","3","4","5","6","7","8","9">>

Range(s) == {s[i] : i \in DOMAIN s}
Digits == Range(DigitSeq)
Letters == Range(LowerSeq) \cup Range(UpperSeq)
Whitespace == {" ", "\t", "\n"}
IndexOf(s, c) == CHOOSE i \in DOMAIN s : s[i] = c

\* String.prototype.toLowerCase, on the ASCII letters
ToLowerChar(c) == IF c \in Range(UpperSeq) THEN LowerSeq[IndexOf(UpperSeq, c)] ELSE c
ToLowerCase(t) == [i \in 1..Len(t) |-> ToLowerChar(t[i])]

\* String.prototype.trim
RECURSIVE TrimStart(_)
TrimStart(t) == IF t # <<>> /\ Head(t) \in Whitespace THEN TrimStart(Tail(t)) ELSE t
RECURSIVE TrimEnd(_)
TrimEnd(t) == IF t # <<>> /\ t[Len(t)] \in Whitespace
              THEN TrimEnd(SubSeq(t, 1, Len(t) - 1)) ELSE t
Trim(t) == TrimEnd(TrimStart(t))

\* String.prototype.includes
Includes(t, sub) == \E i \in 0..(Len(t) - Len(sub)) : SubSeq(t, i + 1, i + Len(sub)) = sub

\* The UTF-8 byte of an ASCII character (Buffer.from)
CharCode(c) ==
    IF c \in Range(LowerSeq) THEN 96 + IndexOf(LowerSeq, c)
    ELSE IF c \in Range(UpperSeq) THEN 64 + IndexOf(UpperSeq, c)
    ELSE IF c \in Digits THEN 47 + IndexOf(DigitSeq, c)
    ELSE CASE c = "\t" -> 9 [] c = "\n" -> 10 [] c = " " -> 32 [] c = "(" -> 40
           [] c = ")" -> 41 [] c = "*" -> 42 [] c = "+" -> 43 [] c = "-" -> 45
           [] c = "." -> 46 [] c = "/" -> 47 [] c = "=" -> 61 [] c = "?" -> 63
Utf8(t) == [i \in 1..Len(t) |-> CharCode(t[i])]

\* Buffer.prototype.toString('base64')
Base64Alphabet == UpperSeq \o LowerSeq \o DigitSeq \o <<"+", "/">>
Base64Char(v) == Base64Alphabet[v + 1]
RECURSIVE Base64(_)
Base64(b) ==
    IF Len(b) = 0 THEN <<>>
    ELSE IF Len(b) = 1 THEN
        <<Base64Char(b[1] \div 4), Base64Char((b[1] % 4) * 16), "=", "=">>
    ELSE IF Len(b) = 2 THEN
        <<Base64Char(b[1] \div 4), Base64Char((b[1] % 4) * 16 + b[2] \div 16),
          Base64Char((b[2] % 16) * 4), "=">>
    ELSE
        <<Base64Char(b[1] \div 4), Base64Char((b[1] % 4) * 16 + b[2] \div 16),
          Base64Char((b[2] % 16) * 4 + b[3] \div 64), Base64Char(b[3] % 64)>>
        \o Base64(SubSeq(b, 4, Len(b)))

\* parseInt of a run of decimal digits
RECURSIVE ParseInt(_)
ParseInt(d) == IF d = <<>> THEN 0
               ELSE 10 * ParseInt(SubSeq(d, 1, Len(d) - 1)) + (IndexOf(DigitSeq, d[Len(d)]) - 1)

\* Number.prototype.toString of an integer
RECURSIVE NatStr(_)
NatStr(n) == IF n < 10 THEN <<DigitSeq[n + 1]>> ELSE NatStr(n \div 10) \o <<DigitSeq[(n % 10) + 1]>>
NumStr(n) == IF n < 0 THEN <<"-">> \o NatStr(0 - n) ELSE NatStr(n)

\* The position after the longest run of characters of S that starts at i
RECURSIVE SkipWhile(_, _, _)
SkipWhile(t, i, S) == IF i <= Len(t) /\ t[i] \in S THEN SkipWhile(t, i + 1, S) ELSE i
CharAt(t, i) == IF i >= 1 /\ i <= Len(t) THEN t[i] ELSE ""

----------------------------------------------------------------------------
(* JSON values as JSON.parse yields them: a value carries its typeof.      *)
(* A number that is a fraction in the code (confidence_score) is kept in   *)
(* hundredths.                                                             *)

JStr(v) == [type |-> "string", val |-> v]
JNum(v) == [type |-> "number", val |-> v]
JArr(v) == [type |-> "array", val |-> v]
JUndef == [type |-> "undefined", val |-> 0]

\* The OpenAIResponse a failed attempt leaves behind: no value at all
NoResponse == [steps |-> <<>>, final_answer |-> <<>>, explanation |-> <<>>,
               confidence_score |-> 0, ai_model_used |-> "none"]

StepToJson(s) == [step_number |-> JNum(s.step_number), description |-> JStr(s.description),
                  mathematical_expression |-> JStr(s.mathematical_expression),
                  reasoning |-> JStr(s.reasoning)]
ToJson(r) == [truthy |-> TRUE,
              steps |-> JArr([i \in 1..Len(r.steps) |-> StepToJson(r.steps[i])]),
              final_answer |-> JStr(r.final_answer), explanation |-> JStr(r.explanation),
              confidence_score |-> JNum(r.confidence_score),
              ai_model_used |-> JStr(r.ai_model_used)]
StepFromJson(s) == [step_number |-> s.step_number.val, description |-> s.description.val,
                    mathematical_expression |->
                        IF s.mathematical_expression.type = "string"
                        THEN s.mathematical_expression.val ELSE <<>>,
                    reasoning |-> s.reasoning.val]
FromJson(p) == [steps |-> [i \in 1..Len(p.steps.val) |-> StepFromJson(p.steps.val[i])],
                final_answer |-> p.final_answer.val, explanation |-> p.explanation.val,
                confidence_score |-> p.confidence_score.val,
                ai_model_used |-> IF p.ai_model_used.type = "string"
                                  THEN p.ai_model_used.val ELSE "none"]

\* AIService.validateAIResponse with the non-empty-steps test left out
ValidateAIResponseNoLength(response) ==
    /\ response.truthy
    /\ response.steps.type = "array"
    /\ response.final_answer.type = "string"
    /\ response.explanation.type = "string"
    /\ response.confidence_score.type = "number"
    /\ response.ai_model_used.type = "string"
    /\ \A i \in 1..Len(response.steps.val) :
            /\ response.steps.val[i].step_number.type = "number"
            /\ response.steps.val[i].description.type = "string"
            /\ response.steps.val[i].reasoning.type = "string"

\* AIService.validateAIResponse
ValidateAIResponse(response) ==
    /\ response.truthy
    /\ response.steps.type = "array"
    /\ Len(response.steps.val) > 0
    /\ response.final_answer.type = "string"
    /\ response.explanation.type = "string"
    /\ response.confidence_score.type = "number"
    /\ response.ai_model_used.type = "string"
    /\ \A i \in 1..Len(response.steps.val) :
            /\ response.steps.val[i].step_number.type = "number"
            /\ response.steps.val[i].description.type = "string"
            /\ response.steps.val[i].reasoning.type = "string"

----------------------------------------------------------------------------
(* The offline mock *)

\* AIService.isAlgebraicEquation
AlgebraKeywords == {<<"s","o","l","v","e"," ","f","o","r">>, <<"x"," ","=">>,
                    <<"f","i","n","d"," ","x">>, <<"e","q","u","a","t","i","o","n">>,
                    <<"=">>, <<"x">>, <<"y">>, <<"v","a","r","i","a","b","l","e">>}
IsAlgebraicEquation(question) ==
    \E keyword \in AlgebraKeywords : Includes(ToLowerCase(question), keyword)

\* AIService.getMockResponse
GetMockResponse(question, questionType) ==
    IF IsAlgebraicEquation(question) THEN
        [steps |-> <<
            [step_number |-> 1, description |-> <<"Identify the equation structure">>,
             mathematical_expression |-> question,
             reasoning |-> <<"We start by examining the given equation to understand what we need to solve for.">>],
            [step_number |-> 2, description |-> <<"Isolate the variable term">>,
             mathematical_expression |-> <<"Apply inverse operations">>,
             reasoning |-> <<"Use inverse operations to isolate the variable on one side of the equation.">>],
            [step_number |-> 3, description |-> <<"Solve for the variable">>,
             mathematical_expression |-> <<"Simplify to get the final answer">>,
             reasoning |-> <<"Complete the calculation to find the value of the unknown variable.">>] >>,
         final_answer |-> <<"Solution depends on the specific equation">>,
         explanation |-> <<"This is a ", questionType,
                           " problem that requires systematic application of algebraic principles to isolate the variable.">>,
         confidence_score |-> 85,
         ai_model_used |-> "mock"]
    ELSE
        [steps |-> <<
            [step_number |-> 1, description |-> <<"Analyze the problem">>,
             mathematical_expression |-> question,
             reasoning |-> <<"First, we carefully read and understand what the problem is asking us to find.">>],
            [step_number |-> 2, description |-> <<"Apply relevant mathematical principles">>,
             mathematical_expression |-> <<"Use appropriate formulas and methods">>,
             reasoning |-> <<"For this ", questionType,
                             " problem, we apply the relevant mathematical concepts and formulas.">>],
            [step_number |-> 3, description |-> <<"Calculate the result">>,
             mathematical_expression |-> <<"Perform the necessary calculations">>,
             reasoning |-> <<"We carefully work through the mathematical operations to arrive at our answer.">>] >>,
         final_answer |-> <<"Answer will depend on the specific problem">>,
         explanation |-> <<"This ", questionType,
                           " problem requires careful analysis and application of mathematical principles. Since this is a demo response, please use a real OpenAI API key for actual problem-solving.">>,
         confidence_score |-> 75,
         ai_model_used |-> "mock"]

----------------------------------------------------------------------------
(* Prose-to-structure synthesis *)

OllamaModel == "llama3:latest"

\* question.match(/(\d+[a-zA-Z]\s*\+\s*\d+\s*=\s*\d+)/) tried at position i:
\* the position after the match, or 0 when there is none at i
EquationEndAt(t, i) ==
    LET d1 == SkipWhile(t, i, Digits)
        p1 == SkipWhile(t, d1 + 1, Whitespace)
        p2 == SkipWhile(t, p1 + 1, Whitespace)
        d2 == SkipWhile(t, p2, Digits)
        p3 == SkipWhile(t, d2, Whitespace)
        p4 == SkipWhile(t, p3 + 1, Whitespace)
        d3 == SkipWhile(t, p4, Digits)
    IN  IF /\ d1 > i
           /\ CharAt(t, d1) \in Letters
           /\ CharAt(t, p1) = "+"
           /\ d2 > p2
           /\ CharAt(t, p3) = "="
           /\ d3 > p4
        THEN d3 ELSE 0
HasEquation(t) == \E i \in 1..Len(t) : EquationEndAt(t, i) # 0
EquationStart(t) == CHOOSE i \in 1..Len(t) :
                        /\ EquationEndAt(t, i) # 0
                        /\ \A j \in 1..(i - 1) : EquationEndAt(t, j) = 0
EquationMatch(t) == SubSeq(t, EquationStart(t), EquationEndAt(t, EquationStart(t)) - 1)

\* question.match(/([a-zA-Z])/): the first letter of the question, else 'x'
VariableMatch(t) ==
    IF \E i \in 1..Len(t) : t[i] \in Letters
    THEN t[CHOOSE i \in 1..Len(t) : t[i] \in Letters /\ \A j \in 1..(i - 1) : t[j] \notin Letters]
    ELSE "x"

\* equation.match(/(\d+)[a-zA-Z]/)[1], on a matched equation
CoefMatch(e) == SubSeq(e, 1, SkipWhile(e, 1, Digits) - 1)
\* equation.match(/[+\-]\s*(\d+)/)[1], on a matched equation
ConstMatch(e) ==
    LET s == CHOOSE i \in 1..Len(e) : e[i] \in {"+", "-"} /\ \A j \in 1..(i - 1) : e[j] \notin {"+", "-"}
        a == SkipWhile(e, s + 1, Whitespace)
    IN  SubSeq(e, a, SkipWhile(e, a, Digits) - 1)
\* equation.match(/=\s*(\d+)/)[1], on a matched equation
ResultMatch(e) ==
    LET s == CHOOSE i \in 1..Len(e) : e[i] = "=" /\ \A j \in 1..(i - 1) : e[j] # "="
        a == SkipWhile(e, s + 1, Whitespace)
    IN  SubSeq(e, a, SkipWhile(e, a, Digits) - 1)

\* The decimal digits of n / d after the point, n < d, cut after k digits
RECURSIVE FractionDigits(_, _, _)
FractionDigits(n, d, k) ==
    IF n = 0 \/ k = 0 THEN <<>>
    ELSE <<DigitSeq[((10 * n) \div d) + 1]>> \o FractionDigits((10 * n) % d, d, k - 1)

\* `${newResult / coefficient}`: the JavaScript number printed in a template.
\* A quotient that does not terminate is cut after 15 fractional digits.
QuotientStr(n, d) ==
    IF d = 0 THEN
        IF n = 0 THEN <<"N","a","N">>
        ELSE IF n > 0 THEN <<"I","n","f","i","n","i","t","y">>
        ELSE <<"-","I","n","f","i","n","i","t","y">>
    ELSE LET a == IF n < 0 THEN 0 - n ELSE n
             sign == IF n < 0 THEN <<"-">> ELSE <<>>
         IN  IF a % d = 0 THEN sign \o NatStr(a \div d)
             ELSE sign \o NatStr(a \div d) \o <<".">> \o FractionDigits(a % d, d, 15)

\* The phrases that select the algebra branch of createCleanSteps
SolvePhrases == {<<"S","o","l","v","e"," ","f","o","r"," ","x">>,
                 <<"S","o","l","v","e"," ","f","o","r"," ","y">>,
                 <<"F","i","n","d"," ","t","h","e"," ","v","a","l","u","e"," ","o","f">>,
                 <<"S","o","l","v","e"," ">>}
DerivativePhrases == {<<"d","e","r","i","v","a","t","i","v","e">>,
                      <<"d","i","f","f","e","r","e","n","t","i","a","t","e">>}

\* The three steps pushed for a matched equation
LinearSteps(equation, variable) ==
    LET coefficient == ParseInt(CoefMatch(equation))
        constant == ParseInt(ConstMatch(equation))
        result == ParseInt(ResultMatch(equation))
        operation == IF Includes(equation, <<"+">>) THEN "+" ELSE "-"
        newResult == IF operation = "+" THEN result - constant ELSE result + constant
    IN  << [step_number |-> 1,
            description |-> <<"Subtract ">> \o NumStr(constant)
                            \o <<" from both sides to isolate the variable term">>,
            mathematical_expression |->
                equation \o <<" ", "→", " ">> \o NumStr(coefficient) \o <<variable>>
                \o <<" ", "=", " ">> \o NumStr(result)
                \o <<" ", IF operation = "+" THEN "-" ELSE "+", " ">> \o NumStr(constant),
            reasoning |-> <<"We subtract ">> \o NumStr(constant)
                          \o <<" from both sides to get rid of the ", operation>>
                          \o NumStr(constant) \o <<" on the left side">>],
           [step_number |-> 2,
            description |-> <<"Simplify both sides of the equation">>,
            mathematical_expression |->
                NumStr(coefficient) \o <<variable>> \o <<" ", "=", " ">> \o NumStr(newResult),
            reasoning |-> <<"After subtracting ">> \o NumStr(constant) \o <<", we get ">>
                          \o NumStr(coefficient) \o <<variable>> \o <<" = ">> \o NumStr(newResult)],
           [step_number |-> 3,
            description |-> <<"Divide both sides by ">> \o NumStr(coefficient)
                            \o <<" to solve for ", variable>>,
            mathematical_expression |->
                <<variable>> \o <<" ", "=", " ">> \o QuotientStr(newResult, coefficient),
            reasoning |-> <<"We divide by ">> \o NumStr(coefficient)
                          \o <<" to get ", variable, " by itself">>] >>

DerivativeSteps ==
    << [step_number |-> 1, description |-> <<"Apply the power rule to each term">>,
        mathematical_expression |-> <<"d/dx[x²] + d/dx[3x] + d/dx[-5]">>,
        reasoning |-> <<"We find the derivative of each term separately using the power rule">>],
       [step_number |-> 2, description |-> <<"Calculate the derivative of x²">>,
        mathematical_expression |-> <<"d/dx[x²] = 2x">>,
        reasoning |-> <<"Using the power rule: d/dx[x^n] = nx^(n-1), so d/dx[x²] = 2x">>],
       [step_number |-> 3, description |-> <<"Calculate the derivative of 3x">>,
        mathematical_expression |-> <<"d/dx[3x] = 3">>,
        reasoning |-> <<"The derivative of a constant times x is just the constant">>],
       [step_number |-> 4, description |-> <<"Calculate the derivative of the constant">>,
        mathematical_expression |-> <<"d/dx[-5] = 0">>,
        reasoning |-> <<"The derivative of any constant is 0">>],
       [step_number |-> 5, description |-> <<"Combine all the derivatives">>,
        mathematical_expression |->
            <<"f","'","(","x",")"," ","="," ","2","x"," ","+"," ","3"," ","+"," ","0",
              " ","="," ","2","x"," ","+"," ","3">>,
        reasoning |-> <<"We add all the derivatives together to get the final answer">>] >>

GenericSteps(question) ==
    << [step_number |-> 1, description |-> <<"Analyze the given problem">>,
        mathematical_expression |-> question,
        reasoning |-> <<"First, we examine the problem to understand what needs to be solved">>],
       [step_number |-> 2, description |-> <<"Apply the appropriate mathematical operations">>,
        mathematical_expression |-> <<"Use the correct formula or method">>,
        reasoning |-> <<"We apply the necessary mathematical steps to solve the problem">>] >>

\* AIService.createCleanSteps (cleanText is not read by the code)
CreateCleanSteps(question) ==
    IF \E p \in SolvePhrases : Includes(question, p) THEN
        IF HasEquation(question)
        THEN LinearSteps(EquationMatch(question), VariableMatch(question))
        ELSE <<>>
    ELSE IF \E p \in DerivativePhrases : Includes(question, p) THEN DerivativeSteps
    ELSE GenericSteps(question)

NumberChars == Digits \cup {".", "-"}

\* mathExpression.match(/x\s*=\s*([0-9.-]+)/i) tried at position i:
\* the captured group, or <<>> when there is no match at i
XEqualsAt(e, i) ==
    LET a == SkipWhile(e, i + 1, Whitespace)
        b == SkipWhile(e, a + 1, Whitespace)
        c == SkipWhile(e, b, NumberChars)
    IN  IF e[i] \in {"x", "X"} /\ CharAt(e, a) = "=" /\ c > b
        THEN SubSeq(e, b, c - 1) ELSE <<>>

\* AIService.extractFinalAnswerFromSteps
ExtractFinalAnswerFromSteps(steps, question) ==
    LET e == steps[Len(steps)].mathematical_expression
    IN  IF Len(steps) > 0 /\ \E i \in 1..Len(e) : XEqualsAt(e, i) # <<>>
        THEN XEqualsAt(e, CHOOSE i \in 1..Len(e) :
                              /\ XEqualsAt(e, i) # <<>>
                              /\ \A j \in 1..(i - 1) : XEqualsAt(e, j) = <<>>)
        ELSE IF Len(steps) > 0 /\ \E i \in 1..Len(e) : e[i] \in NumberChars
        THEN LET s == CHOOSE i \in 1..Len(e) :
                          /\ e[i] \in NumberChars
                          /\ \A j \in 1..(i - 1) : e[j] \notin NumberChars
             IN  SubSeq(e, s, SkipWhile(e, s, NumberChars) - 1)
        ELSE IF Includes(question, <<"3","x"," ","-"," ","7"," ","="," ","1","4">>) THEN <<"7">>
        ELSE IF Includes(question, <<"2","y"," ","+"," ","8"," ","="," ","2","0">>) THEN <<"6">>
        ELSE IF Includes(question, <<"2","x"," ","+"," ","5"," ","="," ","1","3">>) THEN <<"4">>
        ELSE IF Includes(question, <<"f","(","x",")"," ","="," ","x","²"," ","+"," ","3","x",
                                     " ","-"," ","5">>) THEN <<"2","x"," ","+"," ","3">>
        ELSE <<"See solution steps">>

\* AIService.convertTextToStructuredResponse
ConvertTextToStructuredResponse(question, questionType) ==
    LET steps == CreateCleanSteps(question)
    IN  [steps |-> steps,
         final_answer |-> ExtractFinalAnswerFromSteps(steps, question),
         explanation |-> <<"Solution to the ", questionType, " problem: ">> \o question,
         confidence_score |-> 80,
         ai_model_used |-> OllamaModel]

----------------------------------------------------------------------------
(* What a backend can answer.  A payload is the value JSON.parse returns.  *)

SampleSteps ==
    JArr(<< [step_number |-> JNum(1), description |-> JStr(<<"Read the problem">>),
             mathematical_expression |-> JStr(<<"2 + 2">>),
             reasoning |-> JStr(<<"We look at what is asked">>)],
            [step_number |-> JNum(2), description |-> JStr(<<"Add the numbers">>),
             mathematical_expression |-> JUndef,
             reasoning |-> JStr(<<"Two and two make four">>)] >>)

\* An object with every field validateAIResponse asks for
PayloadFull == [truthy |-> TRUE, steps |-> SampleSteps, final_answer |-> JStr(<<"4">>),
                explanation |-> JStr(<<"Count them">>), confidence_score |-> JNum(95),
                ai_model_used |-> JStr("assistant")]
\* The object the prompt asks the backend for: it names no ai_model_used
PayloadAsPrompted == [PayloadFull EXCEPT !.ai_model_used = JUndef]
\* An object with an empty step list
PayloadNoSteps == [PayloadFull EXCEPT !.steps = JArr(<<>>)]
\* A JSON scalar such as 42: every property read is undefined
PayloadScalar == [truthy |-> TRUE, steps |-> JUndef, final_answer |-> JUndef,
                  explanation |-> JUndef, confidence_score |-> JUndef,
                  ai_model_used |-> JUndef]
\* The JSON text null
PayloadNull == [PayloadScalar EXCEPT !.truthy = FALSE]

Payloads == {PayloadFull, PayloadAsPrompted, PayloadNoSteps, PayloadScalar, PayloadNull}

\* An object whose steps have an empty description and an empty reasoning
PayloadBlankStep ==
    [PayloadFull EXCEPT !.steps = JArr(<< [step_number |-> JNum(1), description |-> JStr(<<>>),
                                           mathematical_expression |-> JStr(<<"2 + 2">>),
                                           reasoning |-> JStr(<<>>)] >>)]
\* An object whose steps are numbered 3, 1
PayloadMisnumbered ==
    [PayloadFull EXCEPT !.steps = JArr(<< [SampleSteps.val[1] EXCEPT !.step_number = JNum(3)],
                                          [SampleSteps.val[2] EXCEPT !.step_number = JNum(1)] >>)]
\* An object as prompted but for a step whose step_number is a string
PayloadStringIndex ==
    [PayloadAsPrompted EXCEPT
        !.steps = JArr(<< [SampleSteps.val[1] EXCEPT !.step_number = JStr(<<"1">>)] >>)]

OddPayloads == {PayloadBlankStep, PayloadMisnumbered, PayloadStringIndex}

Outcome(kind, payload) == [kind |-> kind, payload |-> payload]
\* The cloud call: it throws, answers no content, text that is not JSON, or JSON
CloudOutcomes == {Outcome(k, PayloadNull) : k \in {"error", "empty", "malformed"}}
                 \cup {Outcome("json", p) : p \in Payloads}
\* The local call: fetch throws, a non-2xx status, no response text, JSON, or prose
LocalOutcomes == {Outcome(k, PayloadNull) : k \in {"unreachable", "http_error", "empty", "prose"}}
                 \cup {Outcome("json", p) : p \in Payloads}

Attempt(ok, value) == [ok |-> ok, value |-> value]

\* AIService.solveWithOpenAI: ok is FALSE when it throws
SolveWithOpenAI(question, questionType, outcome) ==
    IF outcome.kind = "json" /\ ValidateAIResponse(outcome.payload)
    THEN Attempt(TRUE, [FromJson(outcome.payload) EXCEPT !.ai_model_used = "gpt-4"])
    ELSE Attempt(FALSE, NoResponse)

\* AIService.solveWithOllama: ok is FALSE when it throws
SolveWithOllama(question, questionType, outcome) ==
    LET parsedResponse == IF outcome.kind = "json" THEN outcome.payload
                          ELSE ToJson(ConvertTextToStructuredResponse(question, questionType))
    IN  IF outcome.kind \in {"json", "prose"} /\ ValidateAIResponse(parsedResponse)
        THEN Attempt(TRUE, [FromJson(parsedResponse) EXCEPT !.ai_model_used = OllamaModel])
        ELSE Attempt(FALSE, NoResponse)

\* AIService.solveMathProblem, as the value it returns
SolveMathProblem(question, questionType, initialized, cloud, local) ==
    IF initialized /\ SolveWithOpenAI(question, questionType, cloud).ok
    THEN SolveWithOpenAI(question, questionType, cloud).value
    ELSE IF SolveWithOllama(question, questionType, local).ok
    THEN SolveWithOllama(question, questionType, local).value
    ELSE GetMockResponse(question, questionType)

----------------------------------------------------------------------------
(* One solveMathProblem call, backend by backend *)

Categories == {"algebra", "other"}

SolverTexts == {
    <<"S","o","l","v","e"," ","3","x"," ","+"," ","2"," ","="," ","1","4">>,
    <<"S","o","l","v","e"," ","3","x"," ","-"," ","7"," ","="," ","1","4">>,
    <<"S","o","l","v","e"," ","f","o","r"," ","x">>,
    <<"2","y"," ","+"," ","8"," ","="," ","2","0">>,
    <<"d","i","f","f","e","r","e","n","t","i","a","t","e"," ","3","x">>,
    <<"2","+","2">> }

\* What the backends can answer to the one call of this specification
SolverCloudOutcomes == CloudOutcomes \cup {Outcome("json", p) : p \in OddPayloads}
SolverLocalOutcomes == LocalOutcomes \cup {Outcome("json", p) : p \in OddPayloads}

SolverIdle == [pc |-> "idle", question |-> <<>>, questionType |-> "other",
               cloud |-> Outcome("error", PayloadNull),
               local |-> Outcome("unreachable", PayloadNull),
               attempts |-> <<>>, result |-> NoResponse]

\* Lines 39-48 if a failed cloud attempt went straight to the mock
SolverOpenAISkipsOllama ==
    /\ solver.pc = "start"
    /\ isInitialized
    /\ LET a == SolveWithOpenAI(solver.question, solver.questionType, solver.cloud)
       IN  solver' = [solver EXCEPT !.attempts = Append(@, "cloud"),
                                    !.pc = IF a.ok THEN "returned" ELSE "mock",
                                    !.result = a.value]
    /\ UNCHANGED <<users, questions, answers, cache, isConnected, isInitialized, now, calls>>

\* solveMathProblem, lines 39-48: the cloud backend, when a client is configured
SolverOpenAI ==
    /\ solver.pc = "start"
    /\ isInitialized
    /\ LET a == SolveWithOpenAI(solver.question, solver.questionType, solver.cloud)
       IN  solver' = [solver EXCEPT !.attempts = Append(@, "cloud"),
                                    !.pc = IF a.ok THEN "returned" ELSE "ollama",
                                    !.result = a.value]
    /\ UNCHANGED <<users, questions, answers, cache, isConnected, isInitialized, now, calls>>

SolverNoOpenAI ==
    /\ solver.pc = "start"
    /\ ~isInitialized
    /\ solver' = [solver EXCEPT !.pc = "ollama"]
    /\ UNCHANGED <<users, questions, answers, cache, isConnected, isInitialized, now, calls>>

\* solveMathProblem, lines 51-53: the local backend
SolverOllama ==
    /\ solver.pc = "ollama"
    /\ LET a == SolveWithOllama(solver.question, solver.questionType, solver.local)
       IN  solver' = [solver EXCEPT !.attempts = Append(@, "local"),
                                    !.pc = IF a.ok THEN "returned" ELSE "mock",
                                    !.result = a.value]
    /\ UNCHANGED <<users, questions, answers, cache, isConnected, isInitialized, now, calls>>

\* solveMathProblem, lines 53-57: the offline mock
SolverMock ==
    /\ solver.pc = "mock"
    /\ solver' = [solver EXCEPT !.attempts = Append(@, "mock"),
                                !.pc = "returned",
                                !.result = GetMockResponse(solver.question, solver.questionType)]
    /\ UNCHANGED <<users, questions, answers, cache, isConnected, isInitialized, now, calls>>

InitSolver ==
    /\ users = {}
    /\ questions = <<>>
    /\ answers = <<>>
    /\ cache = {}
    /\ isConnected = FALSE
    /\ isInitialized \in BOOLEAN
    /\ now = 0
    /\ calls = <<>>
    /\ solver \in {[SolverIdle EXCEPT !.pc = "start", !.question = q, !.questionType = t,
                                      !.cloud = c, !.local = l] :
                      q \in SolverTexts, t \in Categories,
                      c \in SolverCloudOutcomes, l \in SolverLocalOutcomes}

NextSolver == SolverOpenAI \/ SolverNoOpenAI \/ SolverOllama \/ SolverMock

SpecSolver == InitSolver /\ [][NextSolver]_vars

\* C1: for every question text, category and combination of backend outcomes,
\* solveMathProblem never ends on a failed attempt: what it returns is a
\* solution with at least one step, and it agrees with the value of the call.
C1_FallbackTotality ==
    /\ solver.pc \in {"start", "ollama", "mock", "returned"}
    /\ solver.pc = "returned" =>
          /\ Len(solver.result.steps) >= 1
          /\ solver.result # NoResponse
          /\ solver.result = SolveMathProblem(solver.question, solver.questionType,
                                              isInitialized, solver.cloud, solver.local)

\* C1 witness: both remote backends failed (the cloud payload was schema-invalid,
\* the local prose gave no step) and the mock was returned
C1_Witness ==
    /\ solver.pc = "returned"
    /\ solver.attempts = <<"cloud", "local", "mock">>
    /\ solver.cloud.kind = "json"
    /\ solver.local.kind = "prose"
    /\ Len(solver.result.steps) = 3

----------------------------------------------------------------------------
(* The stores: Postgres tables and the Redis keyspace *)

QuestionTtlSeconds == 3600
PendingLimit == 10

\* Bounds of the model
MaxCalls == 2
MaxTicks == 1

\* The clock advances by one question TTL
TickMs == QuestionTtlSeconds * 1000

\* The submissions the callers make: u1 is a user of the store and u2 is not;
\* the second text differs from the first by letter case and leading whitespace
Requests == { [userId |-> "u1", question |-> <<"x","=","1">>, questionType |-> "algebra"],
              [userId |-> "u1", question |-> <<" ","X","=","1">>, questionType |-> "other"],
              [userId |-> "u2", question |-> <<"x","=","1">>, questionType |-> "algebra"] }
Durations == {120}
StoreOutcomes == {"ok", "throw"}
InsertOutcomes == {"ok", "throw", "norow"}

\* RedisService.generateQuestionCacheKey without toLowerCase
GenerateQuestionCacheKeyCaseSensitive(questionText) ==
    <<"question:">> \o Base64(Utf8(Trim(questionText)))

\* RedisService.generateQuestionCacheKey
GenerateQuestionCacheKey(questionText) ==
    <<"question:">> \o Base64(Utf8(Trim(ToLowerCase(questionText))))

\* The AnswerResponse that stands for null
NoAnswerResponse == [id |-> 0, question |-> <<>>, question_type |-> "other", status |-> "none",
                     steps |-> <<>>, final_answer |-> <<>>, explanation |-> <<>>,
                     processing_time_ms |-> 0]

HasKey(key) == \E e \in cache : e.key = key
EntryOf(key) == CHOOSE e \in cache : e.key = key
Without(key) == {e \in cache : e.key # key}

\* RedisService.delete: what it returns and the keyspace it leaves.
\* clientOk is FALSE when the Redis client throws.
RedisDelete(key, clientOk) ==
    IF ~isConnected \/ ~clientOk THEN [ok |-> FALSE, keyspace |-> cache]
    ELSE [ok |-> TRUE, keyspace |-> Without(key)]

\* RedisService.get without the test of expires_at (lines 135-138)
RedisGetNoExpiry(key, clientOk, delOk) ==
    IF ~isConnected \/ ~clientOk \/ ~HasKey(key)
    THEN [data |-> NoAnswerResponse, keyspace |-> cache]
    ELSE [data |-> EntryOf(key).data, keyspace |-> cache]

\* RedisService.get: the value returned and the keyspace it leaves.
\* clientOk is FALSE when client.get throws, delOk when the client.del of the
\* expired branch throws.
RedisGet(key, clientOk, delOk) ==
    IF ~isConnected \/ ~clientOk \/ ~HasKey(key)
    THEN [data |-> NoAnswerResponse, keyspace |-> cache]
    ELSE IF now > EntryOf(key).expires_at
    THEN [data |-> NoAnswerResponse, keyspace |-> RedisDelete(key, delOk).keyspace]
    ELSE [data |-> EntryOf(key).data, keyspace |-> cache]

\* RedisService.set as a SET ... NX: a key that is present is left alone
RedisSetIfAbsent(key, value, ttlSeconds, clientOk) ==
    IF ~isConnected \/ ~clientOk \/ HasKey(key) THEN cache
    ELSE cache \cup {[key |-> key, data |-> value,
                      expires_at |-> now + (ttlSeconds * 1000)]}

\* RedisService.set: the keyspace it leaves
RedisSet(key, value, ttlSeconds, clientOk) ==
    IF ~isConnected \/ ~clientOk THEN cache
    ELSE Without(key) \cup {[key |-> key, data |-> value,
                             expires_at |-> now + (ttlSeconds * 1000)]}

\* questions row inserted by QuestionRepository.createQuestion
QuestionRow(id, userId, questionText, questionType) ==
    [id |-> id, user_id |-> userId, question_text |-> questionText,
     question_type |-> questionType, status |-> "pending"]

\* QuestionRepository.updateQuestionStatus: UPDATE questions SET status WHERE id
UpdateQuestionStatus(questionId, status) ==
    [i \in 1..Len(questions) |->
        IF questions[i].id = questionId THEN [questions[i] EXCEPT !.status = status]
        ELSE questions[i]]

\* answers row inserted by AnswerRepository.createAnswer
AnswerRow(questionId, steps, finalAnswer, explanation, processingTimeMs, aiModelUsed) ==
    [id |-> Len(answers) + 1, question_id |-> questionId, steps |-> steps,
     final_answer |-> finalAnswer, explanation |-> explanation,
     processing_time_ms |-> processingTimeMs, ai_model_used |-> aiModelUsed]

\* The default of createAnswer's parameter aiModelUsed
DefaultAiModel == "gpt-4"

\* QuestionRepository.getQuestionsByStatus('pending', 10): ids, newest first
RECURSIVE PendingFrom(_)
PendingFrom(i) ==
    IF i = 0 THEN <<>>
    ELSE IF questions[i].status = "pending" THEN <<questions[i].id>> \o PendingFrom(i - 1)
    ELSE PendingFrom(i - 1)
GetPendingQuestions ==
    LET all == PendingFrom(Len(questions))
    IN  IF Len(all) > PendingLimit THEN SubSeq(all, 1, PendingLimit) ELSE all

----------------------------------------------------------------------------
(* Service calls.  A call keeps its arguments, its locals and its position; *)
(* trace lists the operations it has awaited, with ":throw" or ":norow"    *)
(* after one that failed.                                                   *)

NoResult == [kind |-> "none", id |-> 0, status |-> "none", error |-> "none",
             answer |-> NoAnswerResponse]
AnswerResult(a) == [kind |-> "answer", id |-> a.id, status |-> a.status, error |-> "none",
                    answer |-> a]
PendingResult(id) == [kind |-> "pending", id |-> id, status |-> "processing",
                      error |-> "none", answer |-> NoAnswerResponse]
Raised(error) == [kind |-> "raised", id |-> 0, status |-> "none", error |-> error,
                  answer |-> NoAnswerResponse]
VoidResult == [kind |-> "void", id |-> 0, status |-> "none", error |-> "none",
               answer |-> NoAnswerResponse]

NewCall(op, userId, question, questionType) ==
    [op |-> op, pc |-> IF op = "submit" THEN "getUser" ELSE "fetch",
     userId |-> userId, question |-> question, questionType |-> questionType,
     qid |-> 0, answerId |-> 0, cacheKey |-> <<>>, cached |-> NoAnswerResponse,
     aiResponse |-> NoResponse, backendsDown |-> FALSE,
     processingTime |-> 0, pending |-> <<>>,
     trace |-> <<>>, result |-> NoResult,
     lookupUp |-> FALSE, freshBefore |-> {},
     stored |-> FALSE, expiresAt |-> 0, statusAtReturn |-> "none"]

Step(call, name) == [call EXCEPT !.trace = Append(@, name)]
Return(call, name, result, qs) ==
    [call EXCEPT !.trace = Append(@, name), !.pc = "done", !.result = result,
                 !.statusAtReturn = IF call.qid \in 1..Len(qs) THEN qs[call.qid].status
                                    ELSE "none"]

StatusOf(qs, id) == IF id \in 1..Len(qs) THEN qs[id].status ELSE "none"

----------------------------------------------------------------------------
(* QuestionService.submitQuestion *)

StartSubmit(userId, question, questionType) ==
    /\ Len(calls) < MaxCalls
    /\ calls' = Append(calls, NewCall("submit", userId, question, questionType))
    /\ UNCHANGED <<users, questions, answers, cache, isConnected, isInitialized, now, solver>>

\* Lines 24-27 without the test of the user
SubmitGetUserUnchecked(c) ==
    /\ calls[c].op = "submit" /\ calls[c].pc = "getUser"
    /\ \E o \in StoreOutcomes :
          calls' = [calls EXCEPT ![c] =
              IF o = "throw" THEN Return(calls[c], "getUser:throw", Raised("store error"), questions)
              ELSE [Step(calls[c], "getUser") EXCEPT !.pc = "cacheGet"]]
    /\ UNCHANGED <<users, questions, answers, cache, isConnected, isInitialized, now, solver>>

\* Lines 24-27: userRepository.getUserById, 'User not found'
SubmitGetUser(c) ==
    /\ calls[c].op = "submit" /\ calls[c].pc = "getUser"
    /\ \E o \in StoreOutcomes :
          calls' = [calls EXCEPT ![c] =
              IF o = "throw" THEN Return(calls[c], "getUser:throw", Raised("store error"), questions)
              ELSE IF calls[c].userId \notin users
              THEN Return(calls[c], "getUser", Raised("User not found"), questions)
              ELSE [Step(calls[c], "getUser") EXCEPT !.pc = "cacheGet"]]
    /\ UNCHANGED <<users, questions, answers, cache, isConnected, isInitialized, now, solver>>

\* Lines 29-32: the cache key and redisService.get
SubmitCacheGet(c) ==
    /\ calls[c].op = "submit" /\ calls[c].pc = "cacheGet"
    /\ \E clientOk \in BOOLEAN, delOk \in BOOLEAN :
          LET key == GenerateQuestionCacheKey(calls[c].question)
              got == RedisGet(key, clientOk, delOk)
          IN  /\ cache' = got.keyspace
              /\ calls' = [calls EXCEPT ![c] =
                    [Step(calls[c], "cacheGet") EXCEPT
                        !.cacheKey = key,
                        !.cached = got.data,
                        !.lookupUp = isConnected /\ clientOk,
                        !.freshBefore = {d \in 1..Len(calls) :
                                            calls[d].stored /\ now < calls[d].expiresAt},
                        !.pc = IF got.data # NoAnswerResponse THEN "hitCreateQuestion"
                               ELSE "createQuestion"]]
    /\ UNCHANGED <<users, questions, answers, isConnected, isInitialized, now, solver>>

\* Lines 35-41, cache hit: questionRepository.createQuestion
SubmitHitCreateQuestion(c) ==
    /\ calls[c].op = "submit" /\ calls[c].pc = "hitCreateQuestion"
    /\ \E o \in InsertOutcomes :
          LET id == Len(questions) + 1
              qs == Append(questions, QuestionRow(id, calls[c].userId, calls[c].question,
                                                  calls[c].questionType))
          IN  IF o = "throw" THEN
                  /\ calls' = [calls EXCEPT ![c] =
                        Return(calls[c], "createQuestion:throw", Raised("store error"), questions)]
                  /\ UNCHANGED questions
              ELSE IF o = "norow" THEN
                  \* questionRecord is null: the answer is returned with the id 'cached' (-1)
                  /\ calls' = [calls EXCEPT ![c] =
                        Return(calls[c], "createQuestion:norow",
                               AnswerResult([calls[c].cached EXCEPT !.id = 0 - 1]),
                               questions)]
                  /\ UNCHANGED questions
              ELSE
                  /\ questions' = qs
                  /\ calls' = [calls EXCEPT ![c] =
                        [Step(calls[c], "createQuestion") EXCEPT !.qid = id, !.pc = "hitCreateAnswer"]]
    /\ UNCHANGED <<users, answers, cache, isConnected, isInitialized, now, solver>>

\* Lines 42-55, cache hit: answerRepository.createAnswer, then the return
SubmitHitCreateAnswer(c) ==
    /\ calls[c].op = "submit" /\ calls[c].pc = "hitCreateAnswer"
    /\ \E o \in InsertOutcomes :
          LET row == AnswerRow(calls[c].qid, calls[c].cached.steps, calls[c].cached.final_answer,
                               calls[c].cached.explanation, calls[c].cached.processing_time_ms,
                               DefaultAiModel)
              response == [calls[c].cached EXCEPT !.id = calls[c].qid]
          IN  IF o = "throw" THEN
                  /\ calls' = [calls EXCEPT ![c] =
                        Return(calls[c], "createAnswer:throw", Raised("store error"), questions)]
                  /\ UNCHANGED answers
              ELSE IF o = "norow" THEN
                  /\ calls' = [calls EXCEPT ![c] =
                        Return(calls[c], "createAnswer:norow", AnswerResult(response), questions)]
                  /\ UNCHANGED answers
              ELSE
                  /\ answers' = Append(answers, row)
                  /\ calls' = [calls EXCEPT ![c] =
                        Return([calls[c] EXCEPT !.answerId = row.id], "createAnswer",
                               AnswerResult(response), questions)]
    /\ UNCHANGED <<users, questions, cache, isConnected, isInitialized, now, solver>>

\* Lines 58-68 with the update to 'processing' forgotten
SubmitCreateQuestionSkipProcessing(c) ==
    /\ calls[c].op = "submit" /\ calls[c].pc = "createQuestion"
    /\ questions' = Append(questions, QuestionRow(Len(questions) + 1, calls[c].userId,
                                                  calls[c].question, calls[c].questionType))
    /\ calls' = [calls EXCEPT ![c] =
          [Step(calls[c], "createQuestion") EXCEPT !.qid = Len(questions) + 1, !.pc = "solve"]]
    /\ UNCHANGED <<users, answers, cache, isConnected, isInitialized, now, solver>>

\* Lines 58-66, cache miss: questionRepository.createQuestion
SubmitCreateQuestion(c) ==
    /\ calls[c].op = "submit" /\ calls[c].pc = "createQuestion"
    /\ \E o \in InsertOutcomes :
          LET id == Len(questions) + 1
              qs == Append(questions, QuestionRow(id, calls[c].userId, calls[c].question,
                                                  calls[c].questionType))
          IN  IF o = "throw" THEN
                  /\ calls' = [calls EXCEPT ![c] =
                        Return(calls[c], "createQuestion:throw", Raised("store error"), questions)]
                  /\ UNCHANGED questions
              ELSE IF o = "norow" THEN
                  /\ calls' = [calls EXCEPT ![c] =
                        Return(calls[c], "createQuestion:norow",
                               Raised("Failed to create question"), questions)]
                  /\ UNCHANGED questions
              ELSE
                  /\ questions' = qs
                  /\ calls' = [calls EXCEPT ![c] =
                        [Step(calls[c], "createQuestion") EXCEPT !.qid = id, !.pc = "setProcessing"]]
    /\ UNCHANGED <<users, answers, cache, isConnected, isInitialized, now, solver>>

\* Line 68: updateQuestionStatus(id, 'processing'), outside the inner try
SubmitSetProcessing(c) ==
    /\ calls[c].op = "submit" /\ calls[c].pc = "setProcessing"
    /\ \E o \in StoreOutcomes :
          IF o = "throw" THEN
              /\ calls' = [calls EXCEPT ![c] =
                    Return(calls[c], "setProcessing:throw", Raised("store error"), questions)]
              /\ UNCHANGED questions
          ELSE
              /\ questions' = UpdateQuestionStatus(calls[c].qid, "processing")
              /\ calls' = [calls EXCEPT ![c] = [Step(calls[c], "setProcessing") EXCEPT !.pc = "solve"]]
    /\ UNCHANGED <<users, answers, cache, isConnected, isInitialized, now, solver>>

\* Lines 71-74: aiService.solveMathProblem and the time it took
SubmitSolve(c) ==
    /\ calls[c].op = "submit" /\ calls[c].pc = "solve"
    /\ \E cloud \in CloudOutcomes, local \in LocalOutcomes, d \in Durations :
          calls' = [calls EXCEPT ![c] =
              [Step(calls[c], "solve") EXCEPT
                  !.aiResponse = SolveMathProblem(calls[c].question, calls[c].questionType,
                                                  isInitialized, cloud, local),
                  !.backendsDown =
                      /\ ~(isInitialized /\ SolveWithOpenAI(calls[c].question,
                                                            calls[c].questionType, cloud).ok)
                      /\ ~SolveWithOllama(calls[c].question, calls[c].questionType, local).ok,
                  !.processingTime = d,
                  !.pc = "createAnswer"]]
    /\ UNCHANGED <<users, questions, answers, cache, isConnected, isInitialized, now, solver>>


\* Lines 76-85 without the sixth argument of createAnswer
SubmitCreateAnswerDefaultModel(c) ==
    /\ calls[c].op = "submit" /\ calls[c].pc = "createAnswer"
    /\ \E o \in InsertOutcomes :
          LET row == AnswerRow(calls[c].qid, calls[c].aiResponse.steps,
                               calls[c].aiResponse.final_answer, calls[c].aiResponse.explanation,
                               calls[c].processingTime, DefaultAiModel)
          IN  IF o = "throw" THEN
                  /\ calls' = [calls EXCEPT ![c] =
                        [Step(calls[c], "createAnswer:throw") EXCEPT !.pc = "setFailed"]]
                  /\ UNCHANGED answers
              ELSE IF o = "norow" THEN
                  /\ calls' = [calls EXCEPT ![c] =
                        Return(calls[c], "createAnswer:norow", PendingResult(calls[c].qid), questions)]
                  /\ UNCHANGED answers
              ELSE
                  /\ answers' = Append(answers, row)
                  /\ calls' = [calls EXCEPT ![c] =
                        [Step(calls[c], "createAnswer") EXCEPT
                            !.answerId = row.id, !.pc = "setCompleted"]]
    /\ UNCHANGED <<users, questions, cache, isConnected, isInitialized, now, solver>>

\* Lines 76-85 as they would run outside the inner try: a throw leaves submit
SubmitCreateAnswerUncaught(c) ==
    /\ calls[c].op = "submit" /\ calls[c].pc = "createAnswer"
    /\ \E o \in StoreOutcomes :
          LET row == AnswerRow(calls[c].qid, calls[c].aiResponse.steps,
                               calls[c].aiResponse.final_answer, calls[c].aiResponse.explanation,
                               calls[c].processingTime, calls[c].aiResponse.ai_model_used)
          IN  IF o = "throw" THEN
                  /\ calls' = [calls EXCEPT ![c] =
                        Return(calls[c], "createAnswer:throw", Raised("store error"), questions)]
                  /\ UNCHANGED answers
              ELSE
                  /\ answers' = Append(answers, row)
                  /\ calls' = [calls EXCEPT ![c] =
                        [Step(calls[c], "createAnswer") EXCEPT
                            !.answerId = row.id, !.pc = "setCompleted"]]
    /\ UNCHANGED <<users, questions, cache, isConnected, isInitialized, now, solver>>

\* Lines 76-85: answerRepository.createAnswer with the solver's model name
SubmitCreateAnswer(c) ==
    /\ calls[c].op = "submit" /\ calls[c].pc = "createAnswer"
    /\ \E o \in InsertOutcomes :
          LET row == AnswerRow(calls[c].qid, calls[c].aiResponse.steps,
                               calls[c].aiResponse.final_answer, calls[c].aiResponse.explanation,
                               calls[c].processingTime, calls[c].aiResponse.ai_model_used)
          IN  IF o = "throw" THEN
                  /\ calls' = [calls EXCEPT ![c] =
                        [Step(calls[c], "createAnswer:throw") EXCEPT !.pc = "setFailed"]]
                  /\ UNCHANGED answers
              ELSE IF o = "norow" THEN
                  \* answerRecord is null: neither branch runs, lines 119-123 return
                  /\ calls' = [calls EXCEPT ![c] =
                        Return(calls[c], "createAnswer:norow", PendingResult(calls[c].qid), questions)]
                  /\ UNCHANGED answers
              ELSE
                  /\ answers' = Append(answers, row)
                  /\ calls' = [calls EXCEPT ![c] =
                        [Step(calls[c], "createAnswer") EXCEPT
                            !.answerId = row.id, !.pc = "setCompleted"]]
    /\ UNCHANGED <<users, questions, cache, isConnected, isInitialized, now, solver>>

\* Line 86: updateQuestionStatus(id, 'completed'), inside the inner try
SubmitSetCompleted(c) ==
    /\ calls[c].op = "submit" /\ calls[c].pc = "setCompleted"
    /\ \E o \in StoreOutcomes :
          IF o = "throw" THEN
              /\ calls' = [calls EXCEPT ![c] =
                    [Step(calls[c], "setCompleted:throw") EXCEPT !.pc = "setFailed"]]
              /\ UNCHANGED questions
          ELSE
              /\ questions' = UpdateQuestionStatus(calls[c].qid, "completed")
              /\ calls' = [calls EXCEPT ![c] = [Step(calls[c], "setCompleted") EXCEPT !.pc = "cacheSet"]]
    /\ UNCHANGED <<users, answers, cache, isConnected, isInitialized, now, solver>>

\* Lines 88-109 with the cache write left out when the mock answered
SubmitCacheSetSkipsMock(c) ==
    /\ calls[c].op = "submit" /\ calls[c].pc = "cacheSet"
    /\ \E clientOk \in BOOLEAN :
          LET answerResponse ==
                  [id |-> calls[c].qid, question |-> calls[c].question,
                   question_type |-> calls[c].questionType, status |-> "completed",
                   steps |-> calls[c].aiResponse.steps,
                   final_answer |-> calls[c].aiResponse.final_answer,
                   explanation |-> calls[c].aiResponse.explanation,
                   processing_time_ms |-> calls[c].processingTime]
          IN  /\ cache' = IF calls[c].backendsDown THEN cache
                          ELSE RedisSet(calls[c].cacheKey, answerResponse,
                                        QuestionTtlSeconds, clientOk)
              /\ calls' = [calls EXCEPT ![c] =
                    Return([calls[c] EXCEPT !.stored = isConnected /\ clientOk,
                                            !.expiresAt = now + (QuestionTtlSeconds * 1000)],
                           "cacheSet", AnswerResult(answerResponse), questions)]
    /\ UNCHANGED <<users, questions, answers, isConnected, isInitialized, now, solver>>

\* Lines 88-109: the AnswerResponse, redisService.set(cacheKey, ..., 3600), the return
SubmitCacheSet(c) ==
    /\ calls[c].op = "submit" /\ calls[c].pc = "cacheSet"
    /\ \E clientOk \in BOOLEAN :
          LET answerResponse ==
                  [id |-> calls[c].qid, question |-> calls[c].question,
                   question_type |-> calls[c].questionType, status |-> "completed",
                   steps |-> calls[c].aiResponse.steps,
                   final_answer |-> calls[c].aiResponse.final_answer,
                   explanation |-> calls[c].aiResponse.explanation,
                   processing_time_ms |-> calls[c].processingTime]
          IN  /\ cache' = RedisSet(calls[c].cacheKey, answerResponse, QuestionTtlSeconds, clientOk)
              /\ calls' = [calls EXCEPT ![c] =
                    Return([calls[c] EXCEPT !.stored = isConnected /\ clientOk,
                                            !.expiresAt = now + (QuestionTtlSeconds * 1000)],
                           "cacheSet", AnswerResult(answerResponse), questions)]
    /\ UNCHANGED <<users, questions, answers, isConnected, isInitialized, now, solver>>

\* Lines 111-123 with the update to 'failed' forgotten
SubmitSetFailedNoUpdate(c) ==
    /\ calls[c].op = "submit" /\ calls[c].pc = "setFailed"
    /\ calls' = [calls EXCEPT ![c] =
          Return(calls[c], "setFailed", PendingResult(calls[c].qid), questions)]
    /\ UNCHANGED <<users, questions, answers, cache, isConnected, isInitialized, now, solver>>

\* Lines 111-123: the catch block, updateQuestionStatus(id, 'failed'), the PendingResult
SubmitSetFailed(c) ==
    /\ calls[c].op = "submit" /\ calls[c].pc = "setFailed"
    /\ \E o \in StoreOutcomes :
          IF o = "throw" THEN
              /\ calls' = [calls EXCEPT ![c] =
                    Return(calls[c], "setFailed:throw", Raised("store error"), questions)]
              /\ UNCHANGED questions
          ELSE
              /\ questions' = UpdateQuestionStatus(calls[c].qid, "failed")
              /\ calls' = [calls EXCEPT ![c] =
                    Return(calls[c], "setFailed", PendingResult(calls[c].qid),
                           UpdateQuestionStatus(calls[c].qid, "failed"))]
    /\ UNCHANGED <<users, answers, cache, isConnected, isInitialized, now, solver>>

----------------------------------------------------------------------------
(* QuestionService.processPendingQuestions *)

StartProcessPending ==
    /\ Len(calls) < MaxCalls
    /\ calls' = Append(calls, NewCall("processPending", "none", <<>>, "other"))
    /\ UNCHANGED <<users, questions, answers, cache, isConnected, isInitialized, now, solver>>

\* The loop of lines 223-252 moves to its next question, or the call ends
NextPending(call, name, qs) ==
    IF Len(call.pending) > 1
    THEN [Step(call, name) EXCEPT !.pending = Tail(@), !.qid = call.pending[2],
                                  !.pc = "ppSetProcessing"]
    ELSE Return([call EXCEPT !.pending = <<>>], name, VoidResult, qs)

\* Line 221: getQuestionsByStatus('pending', 10)
PendingFetch(c) ==
    /\ calls[c].op = "processPending" /\ calls[c].pc = "fetch"
    /\ \E o \in StoreOutcomes :
          calls' = [calls EXCEPT ![c] =
              IF o = "throw" THEN Return(calls[c], "fetch:throw", Raised("store error"), questions)
              ELSE IF GetPendingQuestions = <<>> THEN Return(calls[c], "fetch", VoidResult, questions)
              ELSE [Step(calls[c], "fetch") EXCEPT !.pending = GetPendingQuestions,
                                                   !.qid = GetPendingQuestions[1],
                                                   !.pc = "ppSetProcessing"]]
    /\ UNCHANGED <<users, questions, answers, cache, isConnected, isInitialized, now, solver>>

\* Line 225: updateQuestionStatus(question.id, 'processing')
PendingSetProcessing(c) ==
    /\ calls[c].op = "processPending" /\ calls[c].pc = "ppSetProcessing"
    /\ \E o \in StoreOutcomes :
          IF o = "throw" THEN
              /\ calls' = [calls EXCEPT ![c] =
                    [Step(calls[c], "setProcessing:throw") EXCEPT !.pc = "ppSetFailed"]]
              /\ UNCHANGED questions
          ELSE
              /\ questions' = UpdateQuestionStatus(calls[c].qid, "processing")
              /\ calls' = [calls EXCEPT ![c] = [Step(calls[c], "setProcessing") EXCEPT !.pc = "ppSolve"]]
    /\ UNCHANGED <<users, answers, cache, isConnected, isInitialized, now, solver>>

\* Lines 227-232: solveMathProblem on the text and type read at line 221
PendingSolve(c) ==
    /\ calls[c].op = "processPending" /\ calls[c].pc = "ppSolve"
    /\ \E cloud \in CloudOutcomes, local \in LocalOutcomes, d \in Durations :
          calls' = [calls EXCEPT ![c] =
              [Step(calls[c], "solve") EXCEPT
                  !.aiResponse = SolveMathProblem(questions[calls[c].qid].question_text,
                                                  questions[calls[c].qid].question_type,
                                                  isInitialized, cloud, local),
                  !.backendsDown =
                      /\ ~(isInitialized /\ SolveWithOpenAI(questions[calls[c].qid].question_text,
                                                            questions[calls[c].qid].question_type,
                                                            cloud).ok)
                      /\ ~SolveWithOllama(questions[calls[c].qid].question_text,
                                          questions[calls[c].qid].question_type, local).ok,
                  !.processingTime = d,
                  !.pc = "ppCreateAnswer"]]
    /\ UNCHANGED <<users, questions, answers, cache, isConnected, isInitialized, now, solver>>

\* Lines 234-240: createAnswer without a model name; its result is not read
PendingCreateAnswer(c) ==
    /\ calls[c].op = "processPending" /\ calls[c].pc = "ppCreateAnswer"
    /\ \E o \in InsertOutcomes :
          LET row == AnswerRow(calls[c].qid, calls[c].aiResponse.steps,
                               calls[c].aiResponse.final_answer, calls[c].aiResponse.explanation,
                               calls[c].processingTime, DefaultAiModel)
          IN  IF o = "throw" THEN
                  /\ calls' = [calls EXCEPT ![c] =
                        [Step(calls[c], "createAnswer:throw") EXCEPT !.pc = "ppSetFailed"]]
                  /\ UNCHANGED answers
              ELSE IF o = "norow" THEN
                  /\ calls' = [calls EXCEPT ![c] =
                        [Step(calls[c], "createAnswer:norow") EXCEPT !.pc = "ppSetCompleted"]]
                  /\ UNCHANGED answers
              ELSE
                  /\ answers' = Append(answers, row)
                  /\ calls' = [calls EXCEPT ![c] =
                        [Step(calls[c], "createAnswer") EXCEPT !.answerId = row.id,
                                                               !.pc = "ppSetCompleted"]]
    /\ UNCHANGED <<users, questions, cache, isConnected, isInitialized, now, solver>>

\* Line 242: updateQuestionStatus(question.id, 'completed')
PendingSetCompleted(c) ==
    /\ calls[c].op = "processPending" /\ calls[c].pc = "ppSetCompleted"
    /\ \E o \in StoreOutcomes :
          IF o = "throw" THEN
              /\ calls' = [calls EXCEPT ![c] =
                    [Step(calls[c], "setCompleted:throw") EXCEPT !.pc = "ppSetFailed"]]
              /\ UNCHANGED questions
          ELSE
              /\ questions' = UpdateQuestionStatus(calls[c].qid, "completed")
              /\ calls' = [calls EXCEPT ![c] =
                    NextPending(calls[c], "setCompleted",
                                UpdateQuestionStatus(calls[c].qid, "completed"))]
    /\ UNCHANGED <<users, answers, cache, isConnected, isInitialized, now, solver>>

\* Lines 245-251: the catch block; a throw here leaves the loop (lines 253-256)
PendingSetFailed(c) ==
    /\ calls[c].op = "processPending" /\ calls[c].pc = "ppSetFailed"
    /\ \E o \in StoreOutcomes :
          IF o = "throw" THEN
              /\ calls' = [calls EXCEPT ![c] =
                    Return(calls[c], "setFailed:throw", Raised("store error"), questions)]
              /\ UNCHANGED questions
          ELSE
              /\ questions' = UpdateQuestionStatus(calls[c].qid, "failed")
              /\ calls' = [calls EXCEPT ![c] =
                    NextPending(calls[c], "setFailed", UpdateQuestionStatus(calls[c].qid, "failed"))]
    /\ UNCHANGED <<users, answers, cache, isConnected, isInitialized, now, solver>>

----------------------------------------------------------------------------
(* The environment: the clock and the expiry of Redis keys *)

Tick ==
    /\ now < MaxTicks * TickMs
    /\ now' = now + TickMs
    /\ UNCHANGED <<users, questions, answers, cache, isConnected, isInitialized, calls, solver>>

\* Redis drops a key once the EX of its SET has run out
RedisExpire ==
    /\ \E e \in cache : now >= e.expires_at /\ cache' = cache \ {e}
    /\ UNCHANGED <<users, questions, answers, isConnected, isInitialized, now, calls, solver>>

----------------------------------------------------------------------------

Init ==
    /\ users = {"u1"}
    /\ questions = <<>>
    /\ answers = <<>>
    /\ cache = {}
    /\ isConnected \in BOOLEAN
    /\ isInitialized = TRUE
    /\ now = 0
    /\ calls = <<>>
    /\ solver = SolverIdle

Next ==
    \/ \E r \in Requests : StartSubmit(r.userId, r.question, r.questionType)
    \/ StartProcessPending
    \/ \E c \in 1..Len(calls) :
          \/ SubmitGetUser(c)
          \/ SubmitCacheGet(c)
          \/ SubmitHitCreateQuestion(c)
          \/ SubmitHitCreateAnswer(c)
          \/ SubmitCreateQuestion(c)
          \/ SubmitSetProcessing(c)
          \/ SubmitSolve(c)
          \/ SubmitCreateAnswer(c)
          \/ SubmitSetCompleted(c)
          \/ SubmitCacheSet(c)
          \/ SubmitSetFailed(c)
          \/ PendingFetch(c)
          \/ PendingSetProcessing(c)
          \/ PendingSolve(c)
          \/ PendingCreateAnswer(c)
          \/ PendingSetCompleted(c)
          \/ PendingSetFailed(c)
    \/ Tick
    \/ RedisExpire

Spec == Init /\ [][Next]_vars

----------------------------------------------------------------------------
(* Claims *)

Last(t) == t[Len(t)]
InTrace(c, name) == \E i \in 1..Len(calls[c].trace) : calls[c].trace[i] = name
Submits == {c \in 1..Len(calls) : calls[c].op = "submit"}
Finished(c) == calls[c].pc = "done"
\* The call took the cache-hit branch / the cache-miss branch
Hit(c) == InTrace(c, "cacheGet") /\ calls[c].cached # NoAnswerResponse
Miss(c) == InTrace(c, "cacheGet") /\ calls[c].cached = NoAnswerResponse
AnswersOf(questionId) == {i \in 1..Len(answers) : answers[i].question_id = questionId}

\* Two texts that differ only by letter case or leading/trailing whitespace
SameUpToCaseAndPadding(a, b) ==
    /\ Len(Trim(a)) = Len(Trim(b))
    /\ \A i \in 1..Len(Trim(a)) : ToLowerChar(Trim(a)[i]) = ToLowerChar(Trim(b)[i])

\* C2: once a cache-miss submit d has stored its answer, a later submit c of a
\* text that differs only by case or outer whitespace, looking the cache up
\* inside d's TTL with the cache available, computes the same key, hits the
\* cache and never invokes the Solver.
C2_CacheHitOnSameText ==
    \A c \in Submits : \A d \in calls[c].freshBefore :
        (calls[c].lookupUp /\ SameUpToCaseAndPadding(calls[c].question, calls[d].question))
        => /\ calls[c].cacheKey = calls[d].cacheKey
           /\ Hit(c)
           /\ ~InTrace(c, "solve")

\* C2 witness: a finished submit of " X=1" that hit the entry a submit of "x=1" stored
C2_Witness ==
    \E c \in Submits : \E d \in calls[c].freshBefore :
        /\ calls[c].question # calls[d].question
        /\ SameUpToCaseAndPadding(calls[c].question, calls[d].question)
        /\ calls[c].lookupUp
        /\ Finished(c) /\ calls[c].result.kind = "answer"

\* C3 as claimed: on a cache hit the new Question row is `completed` when
\* submit returns, and it has an Answer row.
C3_HitQuestionCompleted ==
    \A c \in Submits :
        (Finished(c) /\ Hit(c) /\ calls[c].result.kind = "answer" /\ calls[c].answerId > 0)
        => /\ calls[c].statusAtReturn = "completed"
           /\ AnswersOf(calls[c].qid) # {}

\* The submit that wrote the cache entry a hit read: the entry carries its question id
WriterOf(c) == CHOOSE d \in Submits : calls[d].qid = calls[c].cached.id /\ calls[d].stored

\* C4 as claimed: the Answer row persisted on a cache hit copies the steps, the
\* final answer, the explanation, the duration and the backend identifier of
\* the Answer row of the submit that wrote the cache entry.
C4_HitAnswerIsCopy ==
    \A c \in Submits :
        (Finished(c) /\ Hit(c) /\ calls[c].answerId > 0)
        => LET mine == answers[calls[c].answerId]
               theirs == answers[calls[WriterOf(c)].answerId]
           IN  /\ mine.steps = theirs.steps
               /\ mine.final_answer = theirs.final_answer
               /\ mine.explanation = theirs.explanation
               /\ mine.processing_time_ms = theirs.processing_time_ms
               /\ mine.ai_model_used = theirs.ai_model_used

\* C5: a submit whose user is not in the store ends with 'User not found'
\* right after the lookup: it has created no Question and no Answer row, has
\* not invoked the Solver and has written nothing to the cache.
C5_UnknownUser ==
    \A c \in Submits :
        (calls[c].userId \notin users /\ InTrace(c, "getUser"))
        => /\ Finished(c)
           /\ calls[c].result = Raised("User not found")
           /\ calls[c].trace = <<"getUser">>
           /\ calls[c].qid = 0 /\ calls[c].answerId = 0 /\ ~calls[c].stored
           /\ \A i \in 1..Len(questions) : questions[i].user_id # calls[c].userId

C5_Witness ==
    \E c \in Submits : calls[c].userId \notin users /\ calls[c].result.error = "User not found"

\* C6 as claimed: when the user exists, submit never raises.
C6_OnlyUserNotFoundRaises ==
    \A c \in Submits :
        (Finished(c) /\ calls[c].userId \in users /\ InTrace(c, "getUser"))
        => calls[c].result.kind # "raised"

\* C6 amended: when the user exists, submit raises exactly when a store
\* operation outside the inner try fails (creating the Question, the update to
\* `processing`, persisting the Answer on the cache-hit path) or when the
\* update to `failed` in the catch block fails; a failure of persisting the
\* Answer or of the update to `completed` on the cache-miss path is caught.
C6_RaisesOutsideInnerTry ==
    \A c \in Submits :
        (Finished(c) /\ calls[c].userId \in users /\ InTrace(c, "getUser"))
        => /\ calls[c].result.kind = "raised"
              <=> \/ Last(calls[c].trace) \in {"createQuestion:throw", "setProcessing:throw",
                                               "setFailed:throw"}
                  \/ Miss(c) /\ Last(calls[c].trace) = "createQuestion:norow"
                  \/ Hit(c) /\ Last(calls[c].trace) = "createAnswer:throw"
           /\ (Miss(c) /\ Last(calls[c].trace) = "setFailed")
              => /\ InTrace(c, "createAnswer:throw") \/ InTrace(c, "setCompleted:throw")
                 /\ calls[c].result = PendingResult(calls[c].qid)

C6_Witness ==
    \E c \in Submits :
        /\ Finished(c) /\ calls[c].userId \in users
        /\ Last(calls[c].trace) = "setProcessing:throw"
        /\ calls[c].result.kind = "raised"

\* C7 as claimed: when persisting the Answer fails on the cache-miss path, the
\* status becomes `failed`, nothing is cached and a PendingResult is returned.
C7_AnswerFailureGivesFailed ==
    \A c \in Submits :
        (Finished(c) /\ Miss(c) /\ InTrace(c, "createAnswer:throw"))
        => /\ calls[c].statusAtReturn = "failed"
           /\ ~InTrace(c, "cacheSet") /\ ~calls[c].stored
           /\ calls[c].result = PendingResult(calls[c].qid)

\* C7 amended: when persisting the Answer fails on the cache-miss path, nothing
\* is written to the cache; if the update to `failed` then succeeds, the status
\* is `failed` and a PendingResult (id, `processing`) is returned; if that
\* update fails too, submit raises the store error.
C7_AnswerFailureHandled ==
    \A c \in Submits :
        (Finished(c) /\ Miss(c) /\ InTrace(c, "createAnswer:throw"))
        => /\ ~InTrace(c, "cacheSet") /\ ~calls[c].stored
           /\ Last(calls[c].trace) \in {"setFailed", "setFailed:throw"}
           /\ Last(calls[c].trace) = "setFailed"
              => /\ calls[c].statusAtReturn = "failed"
                 /\ calls[c].result = PendingResult(calls[c].qid)
           /\ Last(calls[c].trace) = "setFailed:throw"
              => calls[c].result = Raised("store error")

C7_Witness ==
    \E c \in Submits :
        /\ Finished(c) /\ Miss(c) /\ InTrace(c, "createAnswer:throw")
        /\ calls[c].statusAtReturn = "failed"
        /\ calls[c].result.kind = "pending"

\* C8: a cache-miss submit that returns an AnswerResult has awaited, in this
\* order and nothing else: the user lookup, the cache lookup, the insert of the
\* Question, the update to `processing`, the Solver, the insert of the Answer,
\* the update to `completed` and the cache set; the result is `completed` with
\* the new Question's id, and the entry stored is under the key of the question
\* text and expires 3600 s after the set.
C8_MissStepsInOrder ==
    [][\A c \in 1..Len(calls) :
          (/\ calls[c].op = "submit" /\ calls[c].pc # "done"
           /\ calls'[c].pc = "done" /\ calls'[c].result.kind = "answer"
           /\ calls[c].cached = NoAnswerResponse)
          => /\ calls'[c].trace = <<"getUser", "cacheGet", "createQuestion", "setProcessing",
                                    "solve", "createAnswer", "setCompleted", "cacheSet">>
             /\ calls'[c].result.status = "completed"
             /\ calls'[c].result.id = calls[c].qid /\ calls[c].qid \in 1..Len(questions)
             /\ AnswersOf(calls[c].qid) # {}
             /\ calls'[c].stored
                => [key |-> GenerateQuestionCacheKey(calls[c].question),
                    data |-> calls'[c].result.answer,
                    expires_at |-> now + 3600000] \in cache'
      ]_vars

C8_Witness ==
    \E c \in Submits :
        /\ Finished(c) /\ Miss(c) /\ calls[c].result.kind = "answer" /\ calls[c].stored

StatusRank(status) == CASE status = "pending" -> 0 [] status = "processing" -> 1
                        [] status \in {"completed", "failed"} -> 2

\* C9 as claimed: a Question's status only moves forward along
\* pending -> processing -> completed | failed and never leaves completed or failed.
C9_StatusMovesForward ==
    [][\A i \in 1..Len(questions) :
          /\ StatusRank(questions'[i].status) >= StatusRank(questions[i].status)
          /\ questions[i].status \in {"completed", "failed"}
             => questions'[i].status = questions[i].status
      ]_vars

\* C10 as claimed: each Question owns at most one Answer row.
C10_AtMostOneAnswer ==
    \A i \in 1..Len(questions) : Cardinality(AnswersOf(questions[i].id)) <= 1


----------------------------------------------------------------------------
(* Claims about the Solver *)

Attempted(backend) == \E i \in 1..Len(solver.attempts) : solver.attempts[i] = backend
CloudAttempt == SolveWithOpenAI(solver.question, solver.questionType, solver.cloud)
LocalAttempt == SolveWithOllama(solver.question, solver.questionType, solver.local)

\* C15: within one solve call the backends are attempted at most once each, in
\* the order cloud, local, mock; the cloud only when a client is configured,
\* the local backend exactly when the cloud was not configured or failed, and
\* the mock is returned exactly when the local attempt failed.
C15_BackendOrder ==
    /\ solver.attempts \in {<<>>, <<"cloud">>, <<"cloud", "local">>, <<"cloud", "local", "mock">>,
                            <<"local">>, <<"local", "mock">>}
    /\ Attempted("cloud") => isInitialized
    /\ solver.pc = "returned" =>
          /\ isInitialized => Attempted("cloud")
          /\ Attempted("local") <=> (~isInitialized \/ ~CloudAttempt.ok)
          /\ Attempted("mock") <=> (Attempted("local") /\ ~LocalAttempt.ok)
          /\ Attempted("mock") =>
                solver.result = GetMockResponse(solver.question, solver.questionType)

\* C15 witness: the cloud attempt failed and the local backend answered
C15_Witness ==
    /\ solver.pc = "returned"
    /\ solver.attempts = <<"cloud", "local">>
    /\ solver.result.ai_model_used = OllamaModel

\* The payload the spec calls acceptable: a non-empty step list whose steps have
\* a numeric index, a non-empty description and a non-empty reasoning, a
\* final-answer string, an explanation string and a confidence number
CompletePayload(p) ==
    /\ p.truthy
    /\ p.steps.type = "array"
    /\ p.final_answer.type = "string"
    /\ p.explanation.type = "string"
    /\ p.confidence_score.type = "number"
    /\ IF p.steps.type = "array"
       THEN /\ Len(p.steps.val) > 0
            /\ \A i \in 1..Len(p.steps.val) :
                  /\ p.steps.val[i].step_number.type = "number"
                  /\ p.steps.val[i].description.type = "string"
                  /\ p.steps.val[i].description.val # <<>>
                  /\ p.steps.val[i].reasoning.type = "string"
                  /\ p.steps.val[i].reasoning.val # <<>>
       ELSE FALSE

\* C16 as claimed: a JSON payload of the cloud or of the local backend is
\* accepted exactly when it is complete; an accepted payload is returned tagged
\* with that backend's identifier, a rejected one counts as a failed attempt.
C16_PayloadAcceptedIffComplete ==
    /\ (Attempted("cloud") /\ solver.cloud.kind = "json")
       => /\ (solver.pc = "returned" /\ solver.attempts = <<"cloud">>)
             <=> CompletePayload(solver.cloud.payload)
          /\ solver.attempts = <<"cloud">>
             => solver.pc \in {"returned", "ollama"}
          /\ (solver.pc = "returned" /\ solver.attempts = <<"cloud">>)
             => solver.result.ai_model_used = "gpt-4"
    /\ (Attempted("local") /\ solver.local.kind = "json")
       => /\ (solver.pc = "returned" /\ ~Attempted("mock"))
             <=> CompletePayload(solver.local.payload)
          /\ (solver.pc = "returned" /\ ~Attempted("mock"))
             => solver.result.ai_model_used = OllamaModel

\* C17 as claimed: the steps of every solution solve returns are numbered 1, 2, ..., n.
C17_StepsNumberedFromOne ==
    solver.pc = "returned"
    => \A i \in 1..Len(solver.result.steps) : solver.result.steps[i].step_number = i

\* C18 as claimed: when the local backend answers with prose, solve returns the
\* solution synthesized from it, with at least one step and the local model as
\* its identifier, and the mock is not reached.
C18_ProseIsSynthesized ==
    (Attempted("local") /\ solver.local.kind = "prose")
    => /\ solver.pc = "returned"
       /\ ~Attempted("mock")
       /\ Len(solver.result.steps) >= 1
       /\ solver.result.ai_model_used = OllamaModel

\* Questions holding a linear equation c v + k = r or c v - k = r, and (r -+ k) / c
LinearQuestions ==
    { [question |-> <<"S","o","l","v","e"," ","3","x"," ","+"," ","2"," ","="," ","1","4">>,
       answer |-> <<"4">>],
      [question |-> <<"S","o","l","v","e"," ","3","x"," ","-"," ","7"," ","="," ","1","4">>,
       answer |-> <<"7">>],
      [question |-> <<"2","y"," ","+"," ","8"," ","="," ","2","0">>,
       answer |-> <<"6">>] }

\* C19 as claimed: for a question holding a linear equation, prose synthesis
\* yields exactly 3 steps and the final answer (r -+ k) / c.
C19_LinearEquationSynthesis ==
    \A e \in LinearQuestions :
        (solver.question = e.question /\ solver.local.kind = "prose" /\ Attempted("local"))
        => LET s == ConvertTextToStructuredResponse(solver.question, solver.questionType)
           IN  /\ Len(s.steps) = 3
               /\ s.final_answer = e.answer


----------------------------------------------------------------------------
(* Claims about the workflow and the Solver's fallback *)

\* No store operation the call awaited has failed
StoreWorked(c) ==
    \A i \in 1..Len(calls[c].trace) :
        calls[c].trace[i] \in {"getUser", "cacheGet", "createQuestion", "setProcessing", "solve",
                               "createAnswer", "setCompleted", "cacheSet"}

\* C20: when the cloud and the local backend are both unavailable or failing
\* and no store operation fails, a cache-miss submit for an existing user
\* returns an AnswerResult with status `completed`, and the Answer row it
\* persisted records the backend identifier "mock".
C20_MockIsInvisible ==
    \A c \in Submits :
        (Finished(c) /\ Miss(c) /\ calls[c].backendsDown /\ StoreWorked(c))
        => /\ calls[c].result.kind = "answer"
           /\ calls[c].result.status = "completed"
           /\ calls[c].result.id = calls[c].qid
           /\ calls[c].answerId \in 1..Len(answers)
           /\ answers[calls[c].answerId].question_id = calls[c].qid
           /\ answers[calls[c].answerId].ai_model_used = "mock"

C20_Witness ==
    \E c \in Submits :
        /\ Finished(c) /\ Miss(c) /\ calls[c].backendsDown /\ StoreWorked(c)
        /\ calls[c].result.kind = "answer"
        /\ answers[calls[c].answerId].ai_model_used = "mock"


----------------------------------------------------------------------------
(* QuestionService.bulkIngestQuestions.  The callbacks of the map run      *)
(* concurrently: each item has its own position, and any item that is not  *)
(* settled may take its next step.                                         *)

MaxBulkItems == 2

NoEntry == [question |-> <<>>, success |-> FALSE, question_id |-> 0, error |-> "none",
            processing_time_ms |-> 0]

NewItem(r) == [userId |-> r.userId, question |-> r.question, questionType |-> r.questionType,
               pc |-> "getUser", qid |-> 0, aiResponse |-> NoResponse, processingTime |-> 0,
               trace |-> <<>>, entry |-> NoEntry]

\* The batches of 1..MaxBulkItems requests
RECURSIVE BatchesOf(_)
BatchesOf(n) ==
    IF n = 0 THEN {<<>>}
    ELSE {Append(b, r) : b \in BatchesOf(n - 1), r \in Requests}
Batches == UNION {BatchesOf(n) : n \in 1..MaxBulkItems}

NewBulk(batch) ==
    [op |-> "bulk", pc |-> "running",
     items |-> [i \in 1..Len(batch) |-> NewItem(batch[i])],
     successful |-> 0, failed |-> 0, settledOrder |-> <<>>, result |-> NoResult]

\* Lines 259-270: the counters start at 0 and every callback starts
StartBulk(batch) ==
    /\ calls = <<>>
    /\ calls' = <<NewBulk(batch)>>
    /\ UNCHANGED <<users, questions, answers, cache, isConnected, isInitialized, now, solver>>

BulkAt(c, i, pc) ==
    /\ calls[c].op = "bulk" /\ calls[c].pc = "running"
    /\ i \in 1..Len(calls[c].items)
    /\ calls[c].items[i].pc = pc

\* An item moves on to its next await
BulkStep(call, i, name, pc) ==
    [call EXCEPT !.items[i] = [call.items[i] EXCEPT !.trace = Append(@, name), !.pc = pc]]

\* Lines 321-336 with failed++ forgotten
BulkFailUncounted(call, i, name, message) ==
    [call EXCEPT
        !.settledOrder = Append(@, i),
        !.items[i] = [call.items[i] EXCEPT
            !.trace = Append(@, name), !.pc = "settled",
            !.entry = [question |-> call.items[i].question, success |-> FALSE,
                       question_id |-> 0, error |-> message,
                       processing_time_ms |-> call.items[i].processingTime]]]

\* Lines 321-336: the catch of the callback counts the item as failed
BulkFail(call, i, name, message) ==
    [call EXCEPT
        !.failed = @ + 1,
        !.settledOrder = Append(@, i),
        !.items[i] = [call.items[i] EXCEPT
            !.trace = Append(@, name), !.pc = "settled",
            !.entry = [question |-> call.items[i].question, success |-> FALSE,
                       question_id |-> 0, error |-> message,
                       processing_time_ms |-> call.items[i].processingTime]]]

\* Lines 313-319: the item is counted as successful
BulkSucceed(call, i, name) ==
    [call EXCEPT
        !.successful = @ + 1,
        !.settledOrder = Append(@, i),
        !.items[i] = [call.items[i] EXCEPT
            !.trace = Append(@, name), !.pc = "settled",
            !.entry = [question |-> call.items[i].question, success |-> TRUE,
                       question_id |-> call.items[i].qid, error |-> "none",
                       processing_time_ms |-> call.items[i].processingTime]]]

\* Lines 275-278 without the test of the user
BulkGetUserUnchecked(c, i) ==
    /\ BulkAt(c, i, "getUser")
    /\ \E o \in StoreOutcomes :
          calls' = [calls EXCEPT ![c] =
              IF o = "throw" THEN BulkFail(calls[c], i, "getUser:throw", "store error")
              ELSE BulkStep(calls[c], i, "getUser", "createQuestion")]
    /\ UNCHANGED <<users, questions, answers, cache, isConnected, isInitialized, now, solver>>

\* Lines 275-278: getUserById, 'User not found'
BulkGetUser(c, i) ==
    /\ BulkAt(c, i, "getUser")
    /\ \E o \in StoreOutcomes :
          calls' = [calls EXCEPT ![c] =
              IF o = "throw" THEN BulkFail(calls[c], i, "getUser:throw", "store error")
              ELSE IF calls[c].items[i].userId \notin users
              THEN BulkFail(calls[c], i, "getUser", "User not found")
              ELSE BulkStep(calls[c], i, "getUser", "createQuestion")]
    /\ UNCHANGED <<users, questions, answers, cache, isConnected, isInitialized, now, solver>>

\* Lines 281-289: createQuestion, 'Failed to create question'
BulkCreateQuestion(c, i) ==
    /\ BulkAt(c, i, "createQuestion")
    /\ \E o \in InsertOutcomes :
          LET item == calls[c].items[i]
              id == Len(questions) + 1
          IN  IF o = "throw" THEN
                  /\ calls' = [calls EXCEPT ![c] =
                        BulkFail(calls[c], i, "createQuestion:throw", "store error")]
                  /\ UNCHANGED questions
              ELSE IF o = "norow" THEN
                  /\ calls' = [calls EXCEPT ![c] =
                        BulkFail(calls[c], i, "createQuestion:norow", "Failed to create question")]
                  /\ UNCHANGED questions
              ELSE
                  /\ questions' = Append(questions, QuestionRow(id, item.userId, item.question,
                                                                item.questionType))
                  /\ calls' = [calls EXCEPT ![c] =
                        [BulkStep(calls[c], i, "createQuestion", "setProcessing")
                            EXCEPT !.items[i].qid = id]]
    /\ UNCHANGED <<users, answers, cache, isConnected, isInitialized, now, solver>>

\* Line 292: updateQuestionStatus(id, 'processing')
BulkSetProcessing(c, i) ==
    /\ BulkAt(c, i, "setProcessing")
    /\ \E o \in StoreOutcomes :
          IF o = "throw" THEN
              /\ calls' = [calls EXCEPT ![c] =
                    BulkFail(calls[c], i, "setProcessing:throw", "store error")]
              /\ UNCHANGED questions
          ELSE
              /\ questions' = UpdateQuestionStatus(calls[c].items[i].qid, "processing")
              /\ calls' = [calls EXCEPT ![c] = BulkStep(calls[c], i, "setProcessing", "solve")]
    /\ UNCHANGED <<users, answers, cache, isConnected, isInitialized, now, solver>>

\* Lines 294-299 with a lookup of the question-text cache in front of the Solver
BulkSolveCached(c, i) ==
    /\ BulkAt(c, i, "solve")
    /\ \E cloud \in CloudOutcomes, local \in LocalOutcomes, d \in Durations :
          LET item == calls[c].items[i]
              got == RedisGet(GenerateQuestionCacheKey(item.question), TRUE, TRUE)
          IN  calls' = [calls EXCEPT ![c] =
                  IF got.data # NoAnswerResponse
                  THEN [BulkStep(calls[c], i, "cacheGet", "createAnswer") EXCEPT
                           !.items[i].aiResponse =
                               [NoResponse EXCEPT !.steps = got.data.steps,
                                                  !.final_answer = got.data.final_answer,
                                                  !.explanation = got.data.explanation],
                           !.items[i].processingTime = d]
                  ELSE [BulkStep(calls[c], i, "solve", "createAnswer") EXCEPT
                           !.items[i].aiResponse =
                               SolveMathProblem(item.question, item.questionType,
                                                isInitialized, cloud, local),
                           !.items[i].processingTime = d]]
    /\ UNCHANGED <<users, questions, answers, cache, isConnected, isInitialized, now, solver>>

\* Lines 294-299: solveMathProblem and the time since the callback started
BulkSolve(c, i) ==
    /\ BulkAt(c, i, "solve")
    /\ \E cloud \in CloudOutcomes, local \in LocalOutcomes, d \in Durations :
          calls' = [calls EXCEPT ![c] =
              [BulkStep(calls[c], i, "solve", "createAnswer") EXCEPT
                  !.items[i].aiResponse =
                      SolveMathProblem(calls[c].items[i].question, calls[c].items[i].questionType,
                                       isInitialized, cloud, local),
                  !.items[i].processingTime = d]]
    /\ UNCHANGED <<users, questions, answers, cache, isConnected, isInitialized, now, solver>>

\* Lines 302-309 with the status set to 'failed' when createAnswer throws,
\* as the failure branch of submitQuestion does
BulkCreateAnswerMarksFailed(c, i) ==
    /\ BulkAt(c, i, "createAnswer")
    /\ \E o \in InsertOutcomes :
          LET item == calls[c].items[i]
              row == AnswerRow(item.qid, item.aiResponse.steps, item.aiResponse.final_answer,
                               item.aiResponse.explanation, item.processingTime,
                               item.aiResponse.ai_model_used)
          IN  IF o = "throw" THEN
                  /\ calls' = [calls EXCEPT ![c] =
                        BulkFail(calls[c], i, "createAnswer:throw", "store error")]
                  /\ questions' = UpdateQuestionStatus(item.qid, "failed")
                  /\ UNCHANGED answers
              ELSE IF o = "norow" THEN
                  /\ calls' = [calls EXCEPT ![c] =
                        BulkStep(calls[c], i, "createAnswer:norow", "setCompleted")]
                  /\ UNCHANGED <<questions, answers>>
              ELSE
                  /\ answers' = Append(answers, row)
                  /\ calls' = [calls EXCEPT ![c] =
                        BulkStep(calls[c], i, "createAnswer", "setCompleted")]
                  /\ UNCHANGED questions
    /\ UNCHANGED <<users, cache, isConnected, isInitialized, now, solver>>

\* Lines 302-309: createAnswer with the solver's model name; its result is not read
BulkCreateAnswer(c, i) ==
    /\ BulkAt(c, i, "createAnswer")
    /\ \E o \in InsertOutcomes :
          LET item == calls[c].items[i]
              row == AnswerRow(item.qid, item.aiResponse.steps, item.aiResponse.final_answer,
                               item.aiResponse.explanation, item.processingTime,
                               item.aiResponse.ai_model_used)
          IN  IF o = "throw" THEN
                  /\ calls' = [calls EXCEPT ![c] =
                        BulkFail(calls[c], i, "createAnswer:throw", "store error")]
                  /\ UNCHANGED answers
              ELSE IF o = "norow" THEN
                  /\ calls' = [calls EXCEPT ![c] =
                        BulkStep(calls[c], i, "createAnswer:norow", "setCompleted")]
                  /\ UNCHANGED answers
              ELSE
                  /\ answers' = Append(answers, row)
                  /\ calls' = [calls EXCEPT ![c] =
                        BulkStep(calls[c], i, "createAnswer", "setCompleted")]
    /\ UNCHANGED <<users, questions, cache, isConnected, isInitialized, now, solver>>

\* Lines 311-319: updateQuestionStatus(id, 'completed'), successful++
BulkSetCompleted(c, i) ==
    /\ BulkAt(c, i, "setCompleted")
    /\ \E o \in StoreOutcomes :
          IF o = "throw" THEN
              /\ calls' = [calls EXCEPT ![c] =
                    BulkFail(calls[c], i, "setCompleted:throw", "store error")]
              /\ UNCHANGED questions
          ELSE
              /\ questions' = UpdateQuestionStatus(calls[c].items[i].qid, "completed")
              /\ calls' = [calls EXCEPT ![c] = BulkSucceed(calls[c], i, "setCompleted")]
    /\ UNCHANGED <<users, answers, cache, isConnected, isInitialized, now, solver>>

\* Lines 340-358: Promise.all resolves with the entries in the order of the input
BulkReturn(c) ==
    /\ calls[c].op = "bulk" /\ calls[c].pc = "running"
    /\ \A i \in 1..Len(calls[c].items) : calls[c].items[i].pc = "settled"
    /\ calls' = [calls EXCEPT ![c] =
          [calls[c] EXCEPT
              !.pc = "done",
              !.result = [kind |-> "bulk",
                          total_questions |-> Len(calls[c].items),
                          successful |-> calls[c].successful,
                          failed |-> calls[c].failed,
                          results |-> [i \in 1..Len(calls[c].items) |-> calls[c].items[i].entry]]]]
    /\ UNCHANGED <<users, questions, answers, cache, isConnected, isInitialized, now, solver>>

\* The cache a batch finds: an earlier submit of "x=1" has stored its answer
BulkCache ==
    {[key |-> GenerateQuestionCacheKey(<<"x","=","1">>),
      data |-> [NoAnswerResponse EXCEPT !.id = 1, !.question = <<"x","=","1">>,
                                        !.question_type = "algebra",
                                        !.status = "completed", !.final_answer = <<"1">>],
      expires_at |-> QuestionTtlSeconds * 1000]}

InitBulk ==
    /\ users = {"u1"}
    /\ questions = <<>>
    /\ answers = <<>>
    /\ cache = BulkCache
    /\ isConnected = TRUE
    /\ isInitialized = TRUE
    /\ now = 0
    /\ calls = <<>>
    /\ solver = SolverIdle

NextBulk ==
    \/ \E batch \in Batches : StartBulk(batch)
    \/ \E c \in 1..Len(calls) :
          \/ \E i \in 1..MaxBulkItems :
                \/ BulkGetUser(c, i)
                \/ BulkCreateQuestion(c, i)
                \/ BulkSetProcessing(c, i)
                \/ BulkSolve(c, i)
                \/ BulkCreateAnswer(c, i)
                \/ BulkSetCompleted(c, i)
          \/ BulkReturn(c)

SpecBulk == InitBulk /\ [][NextBulk]_vars


----------------------------------------------------------------------------
(* Claims about the bulk workflow *)

Bulks == {c \in 1..Len(calls) : calls[c].op = "bulk"}
BulkTraceOk(item) ==
    item.trace = <<"getUser", "createQuestion", "setProcessing", "solve", "createAnswer",
                   "setCompleted">>
Flagged(results, flag) == {i \in 1..Len(results) : results[i].success = flag}

\* C11: a bulk call never ends by raising; when it has returned, total is the
\* number of items, there is one entry per item in the order of the input
\* (entry i echoes the text of item i and, on success, the id of the Question
\* item i created), successful and failed count the entries flagged success
\* and failure, and they add up to the total.
C11_BulkAggregate ==
    \A c \in Bulks :
        /\ calls[c].result.kind \in {"none", "bulk"}
        /\ calls[c].pc = "done" <=> calls[c].result.kind = "bulk"
        /\ calls[c].pc = "done" =>
              LET r == calls[c].result
                  n == Len(calls[c].items)
              IN  /\ n \in 1..50
                  /\ r.total_questions = n
                  /\ Len(r.results) = n
                  /\ \A i \in 1..n :
                        /\ r.results[i].question = calls[c].items[i].question
                        /\ r.results[i].success => r.results[i].question_id = calls[c].items[i].qid
                        /\ r.results[i].success <=> r.results[i].error = "none"
                  /\ r.successful = Cardinality(Flagged(r.results, TRUE))
                  /\ r.failed = Cardinality(Flagged(r.results, FALSE))
                  /\ r.successful + r.failed = n

\* C11 witness: a batch of two whose second item settled first, one item
\* failing on a store error and the other succeeding
C11_Witness ==
    \E c \in Bulks :
        /\ calls[c].pc = "done"
        /\ calls[c].settledOrder = <<2, 1>>
        /\ calls[c].result.successful = 1 /\ calls[c].result.failed = 1
        /\ \E i \in 1..2 : calls[c].result.results[i].error = "store error"

\* C12: in a batch that has returned, an item whose user does not exist has a
\* failed entry with the message 'User not found' and no question id, and no
\* Question row was created for it; every other item whose user exists and
\* whose store operations all succeeded has its Question created, an Answer
\* row for it, the status `completed` and a success entry.
C12_UnknownUserItem ==
    \A c \in Bulks :
        calls[c].pc = "done" =>
            \A i \in 1..Len(calls[c].items) :
                LET item == calls[c].items[i]
                    entry == calls[c].result.results[i]
                IN  /\ (item.userId \notin users /\ item.trace # <<"getUser:throw">>)
                       => /\ ~entry.success
                          /\ entry.error = "User not found"
                          /\ entry.question_id = 0 /\ item.qid = 0
                          /\ \A q \in 1..Len(questions) : questions[q].user_id # item.userId
                    /\ (item.userId \in users /\ BulkTraceOk(item))
                       => /\ entry.success
                          /\ entry.question_id = item.qid
                          /\ item.qid \in 1..Len(questions)
                          /\ questions[item.qid].status = "completed"
                          /\ questions[item.qid].question_text = item.question
                          /\ \E a \in 1..Len(answers) :
                                /\ answers[a].question_id = item.qid
                                /\ answers[a].steps = item.aiResponse.steps

\* C12 witness: the first item names an unknown user, the second item succeeded
C12_Witness ==
    \E c \in Bulks :
        /\ calls[c].pc = "done"
        /\ Len(calls[c].items) = 2
        /\ calls[c].items[1].userId \notin users
        /\ calls[c].result.results[1].error = "User not found"
        /\ calls[c].items[2].userId \in users
        /\ calls[c].result.results[2].success

----------------------------------------------------------------------------
(* The cache adapter called on its own: RedisService, get .. flushAll *)

DefaultTtlSeconds == 300

\* Bounds of the cache specification
MaxCacheOps == 2
MaxCacheTicks == 2

\* The clock of the cache specification moves by one second
CacheTickMs == 1000

\* The keys, values and TTLs the callers of the adapter use: the key of the
\* question "x=1" and a key of another caller; two answers; one second
CacheKeys == {GenerateQuestionCacheKey(<<"x","=","1">>), <<"k">>}
CacheValue(answer) == [NoAnswerResponse EXCEPT !.id = 1, !.question = <<"x","=","1">>,
                                               !.status = "completed",
                                               !.final_answer = answer]
CacheValues == {CacheValue(<<"1">>), CacheValue(<<"2">>)}
CacheTtls == {1}
CachePair(key, value, ttlSeconds) == [key |-> key, value |-> value, ttlSeconds |-> ttlSeconds]
KeyLists == {<<>>, <<GenerateQuestionCacheKey(<<"x","=","1">>), <<"k">>>>}
PairLists == {<<>>, << CachePair(<<"k">>, CacheValue(<<"1">>), 1),
                       CachePair(<<"k">>, CacheValue(<<"2">>), DefaultTtlSeconds) >>}

\* RedisService.exists: client.exists(key) === 1
RedisExists(key, clientOk) ==
    IF ~isConnected \/ ~clientOk THEN FALSE ELSE HasKey(key)

\* RedisService.mget: the values returned and the keyspace it leaves; deleted
\* holds the keys whose fire-and-forget delete reached Redis
RedisMGet(keys, clientOk, deleted) ==
    IF ~isConnected \/ ~clientOk \/ keys = <<>>
    THEN [data |-> [i \in 1..Len(keys) |-> NoAnswerResponse], keyspace |-> cache]
    ELSE [data |-> [i \in 1..Len(keys) |->
                       IF ~HasKey(keys[i]) THEN NoAnswerResponse
                       ELSE IF now > EntryOf(keys[i]).expires_at THEN NoAnswerResponse
                       ELSE EntryOf(keys[i]).data],
          keyspace |-> {e \in cache : ~(/\ e.key \in Range(keys)
                                        /\ now > e.expires_at
                                        /\ e.key \in deleted)}]

\* the SET commands of the pipeline of mset, in order
RECURSIVE PipelineSet(_, _)
PipelineSet(pairs, keyspace) ==
    IF pairs = <<>> THEN keyspace
    ELSE PipelineSet(Tail(pairs),
                     {e \in keyspace : e.key # Head(pairs).key}
                     \cup {[key |-> Head(pairs).key, data |-> Head(pairs).value,
                            expires_at |-> now + (Head(pairs).ttlSeconds * 1000)]})

\* RedisService.mset: what it returns and the keyspace it leaves
RedisMSet(pairs, clientOk) ==
    IF ~isConnected \/ ~clientOk \/ pairs = <<>> THEN [ok |-> FALSE, keyspace |-> cache]
    ELSE [ok |-> TRUE, keyspace |-> PipelineSet(pairs, cache)]

\* RedisService.flushAll: what it returns and the keyspace it leaves
RedisFlushAll(clientOk) ==
    IF ~isConnected \/ ~clientOk THEN [ok |-> FALSE, keyspace |-> cache]
    ELSE [ok |-> TRUE, keyspace |-> {}]

\* One call of the adapter: the boolean it returns (flag), the values it returns
\* (data), the keyspace it leaves and whether the call raised
RedisTry(method, keys, pairs, clientOk, deleted) ==
    [flag |-> CASE method = "set" ->
                       isConnected /\ clientOk
                 [] method = "delete" -> RedisDelete(keys[1], clientOk).ok
                 [] method = "exists" -> RedisExists(keys[1], clientOk)
                 [] method = "mset" -> RedisMSet(pairs, clientOk).ok
                 [] method = "flushAll" -> RedisFlushAll(clientOk).ok
                 [] OTHER -> FALSE,
     data |-> CASE method = "get" ->
                       <<RedisGet(keys[1], clientOk, keys[1] \in deleted).data>>
                 [] method = "mget" -> RedisMGet(keys, clientOk, deleted).data
                 [] OTHER -> <<>>,
     keyspace |-> CASE method = "get" ->
                           RedisGet(keys[1], clientOk, keys[1] \in deleted).keyspace
                     [] method = "set" ->
                           RedisSet(keys[1], pairs[1].value, pairs[1].ttlSeconds, clientOk)
                     [] method = "delete" -> RedisDelete(keys[1], clientOk).keyspace
                     [] method = "mget" -> RedisMGet(keys, clientOk, deleted).keyspace
                     [] method = "mset" -> RedisMSet(pairs, clientOk).keyspace
                     [] method = "flushAll" -> RedisFlushAll(clientOk).keyspace
                     [] OTHER -> cache,
     raised |-> FALSE]

\* The adapter with the catch blocks taken out: an error of the client escapes
RedisServiceUncaught(method, keys, pairs, clientOk, deleted) ==
    [RedisTry(method, keys, pairs, clientOk, deleted) EXCEPT
        !.raised = isConnected /\ ~clientOk]

\* try { ... } catch { log; return null / false }
RedisService(method, keys, pairs, clientOk, deleted) ==
    RedisTry(method, keys, pairs, clientOk, deleted)

\* The calls run one after the other
AllDone == \A d \in 1..Len(calls) : calls[d].pc = "done"

\* The record of one call of the adapter
RedisCall(method, keys, pairs, clientOk, deleted, out) ==
    [method |-> method, keys |-> keys, pairs |-> pairs, at |-> now,
     up |-> isConnected /\ clientOk,
     delFailed |-> IF isConnected /\ clientOk /\ method \in {"get", "mget"}
                   THEN {k \in Range(keys) \ deleted :
                            HasKey(k) /\ now > EntryOf(k).expires_at}
                   ELSE {},
     flag |-> out.flag, data |-> out.data, raised |-> out.raised,
     before |-> cache, after |-> out.keyspace]
    @@ [NewCall("redis", "none", <<>>, "other") EXCEPT !.pc = "done"]

RedisOp(method, keys, pairs) ==
    /\ AllDone
    /\ Len(calls) < MaxCacheOps
    /\ \E clientOk \in BOOLEAN, deleted \in SUBSET Range(keys) :
          LET out == RedisService(method, keys, pairs, clientOk, deleted)
          IN  /\ cache' = out.keyspace
              /\ calls' = Append(calls, RedisCall(method, keys, pairs, clientOk, deleted, out))
    /\ UNCHANGED <<users, questions, answers, isConnected, isInitialized, now, solver>>

----------------------------------------------------------------------------
(* QuestionService.getUserHistory and QuestionRepository.getUserHistory *)

HistoryTtlSeconds == 300
HistoryPage == 1
HistoryLimit == 10

\* RedisService.generateUserHistoryCacheKey
GenerateUserHistoryCacheKey(userId, page) == <<"user:", userId, ":history:">> \o NatStr(page)

\* The rows of questions LEFT JOIN answers for question i: one per answer, or
\* one without an answer
JoinedRows(userId, i) ==
    LET q == questions[i]
        entry(a) == [id |-> q.id, question_text |-> q.question_text,
                     question_type |-> q.question_type, status |-> q.status,
                     has_answer |-> a # 0,
                     steps |-> IF a = 0 THEN <<>> ELSE answers[a].steps,
                     final_answer |-> IF a = 0 THEN <<>> ELSE answers[a].final_answer,
                     explanation |-> IF a = 0 THEN <<>> ELSE answers[a].explanation]
        RECURSIVE from(_)
        from(a) == IF a > Len(answers) THEN <<>>
                   ELSE IF answers[a].question_id = q.id THEN <<entry(a)>> \o from(a + 1)
                   ELSE from(a + 1)
    IN  IF q.user_id # userId THEN <<>>
        ELSE IF from(1) = <<>> THEN <<entry(0)>>
        ELSE from(1)

\* ORDER BY q.created_at DESC: the newest question first
RECURSIVE JoinedFrom(_, _)
JoinedFrom(userId, i) ==
    IF i = 0 THEN <<>> ELSE JoinedRows(userId, i) \o JoinedFrom(userId, i - 1)

\* QuestionRepository.getUserHistory: COUNT(*), then the page of the join
GetUserHistory(userId, page, limit) ==
    LET rows == JoinedFrom(userId, Len(questions))
        offset == (page - 1) * limit
        last == IF Len(rows) < offset + limit THEN Len(rows) ELSE offset + limit
    IN  [user_id |-> userId,
         questions |-> SubSeq(rows, offset + 1, last),
         total_count |-> Cardinality({i \in 1..Len(questions) : questions[i].user_id = userId})]

HistoryResult(history) == [kind |-> "history", id |-> 0, status |-> "none", error |-> "none",
                           answer |-> NoAnswerResponse, history |-> history]

\* a call of getUserHistory for page 1; userKnown tells whether the user is in
\* the store when the call starts, at the time of the call
NewHistory(userId, limit) ==
    [limit |-> limit, userKnown |-> userId \in users, at |-> now]
    @@ [NewCall("history", userId, <<>>, "other") EXCEPT !.pc = "historyCacheGet"]

StartHistory(userId, limit) ==
    /\ AllDone
    /\ calls' = Append(calls, NewHistory(userId, limit))
    /\ UNCHANGED <<users, questions, answers, cache, isConnected, isInitialized, now, solver>>

\* Lines 175-181 with the page size made part of the cache key
HistoryCacheGetKeyedBySize(c) ==
    /\ calls[c].op = "history" /\ calls[c].pc = "historyCacheGet"
    /\ \E clientOk \in BOOLEAN, delOk \in BOOLEAN :
          LET key == GenerateUserHistoryCacheKey(calls[c].userId, HistoryPage)
                        \o <<":">> \o NatStr(calls[c].limit)
              got == RedisGet(key, clientOk, delOk)
              call == [Step(calls[c], "cacheGet") EXCEPT
                          !.cacheKey = key, !.cached = got.data,
                          !.lookupUp = isConnected /\ clientOk]
          IN  /\ cache' = got.keyspace
              /\ calls' = [calls EXCEPT ![c] =
                    IF got.data # NoAnswerResponse
                    THEN [call EXCEPT !.pc = "done", !.result = HistoryResult(got.data)]
                    ELSE [call EXCEPT !.pc = "historyGetUser"]]
    /\ UNCHANGED <<users, questions, answers, isConnected, isInitialized, now, solver>>

\* Lines 175-181: the cache key, redisService.get and the return of a hit
HistoryCacheGet(c) ==
    /\ calls[c].op = "history" /\ calls[c].pc = "historyCacheGet"
    /\ \E clientOk \in BOOLEAN, delOk \in BOOLEAN :
          LET key == GenerateUserHistoryCacheKey(calls[c].userId, HistoryPage)
              got == RedisGet(key, clientOk, delOk)
              call == [Step(calls[c], "cacheGet") EXCEPT
                          !.cacheKey = key, !.cached = got.data,
                          !.lookupUp = isConnected /\ clientOk]
          IN  /\ cache' = got.keyspace
              /\ calls' = [calls EXCEPT ![c] =
                    IF got.data # NoAnswerResponse
                    THEN [call EXCEPT !.pc = "done", !.result = HistoryResult(got.data)]
                    ELSE [call EXCEPT !.pc = "historyGetUser"]]
    /\ UNCHANGED <<users, questions, answers, isConnected, isInitialized, now, solver>>

\* Lines 183-186: userRepository.getUserById, 'User not found'
HistoryGetUser(c) ==
    /\ calls[c].op = "history" /\ calls[c].pc = "historyGetUser"
    /\ \E o \in StoreOutcomes :
          calls' = [calls EXCEPT ![c] =
              IF o = "throw" THEN Return(calls[c], "getUser:throw", Raised("store error"), questions)
              ELSE IF calls[c].userId \notin users
              THEN Return(calls[c], "getUser", Raised("User not found"), questions)
              ELSE [Step(calls[c], "getUser") EXCEPT !.pc = "historyQuery"]]
    /\ UNCHANGED <<users, questions, answers, cache, isConnected, isInitialized, now, solver>>

\* Line 188: questionRepository.getUserHistory; the history is kept in `pending`
HistoryQuery(c) ==
    /\ calls[c].op = "history" /\ calls[c].pc = "historyQuery"
    /\ \E o \in StoreOutcomes :
          calls' = [calls EXCEPT ![c] =
              IF o = "throw" THEN Return(calls[c], "query:throw", Raised("store error"), questions)
              ELSE [Step(calls[c], "query") EXCEPT
                       !.pending = <<GetUserHistory(calls[c].userId, HistoryPage, calls[c].limit)>>,
                       !.pc = "historyCacheSet"]]
    /\ UNCHANGED <<users, questions, answers, cache, isConnected, isInitialized, now, solver>>

\* Lines 190-194: redisService.set(cacheKey, history, 300) and the return
HistoryCacheSet(c) ==
    /\ calls[c].op = "history" /\ calls[c].pc = "historyCacheSet"
    /\ \E clientOk \in BOOLEAN :
          /\ cache' = RedisSet(calls[c].cacheKey, calls[c].pending[1], HistoryTtlSeconds, clientOk)
          /\ calls' = [calls EXCEPT ![c] =
                Return([calls[c] EXCEPT !.stored = isConnected /\ clientOk,
                                        !.expiresAt = now + (HistoryTtlSeconds * 1000)],
                       "cacheSet", HistoryResult(calls[c].pending[1]), questions)]
    /\ UNCHANGED <<users, questions, answers, isConnected, isInitialized, now, solver>>

\* A submit of the cache specification: an existing user's question, started
\* when no other call runs
StartSubmitAlone ==
    /\ AllDone
    /\ Len(calls) < MaxCacheOps
    /\ StartSubmit("u1", <<"x","=","1">>, "algebra")

----------------------------------------------------------------------------
(* The environment of the cache specification *)

\* The 'ready' and 'end' / 'error' events of the client (lines 82-99)
RedisReady ==
    /\ ~isConnected
    /\ isConnected' = TRUE
    /\ UNCHANGED <<users, questions, answers, cache, isInitialized, now, calls, solver>>

RedisEnd ==
    /\ isConnected
    /\ isConnected' = FALSE
    /\ UNCHANGED <<users, questions, answers, cache, isInitialized, now, calls, solver>>

\* Date.now() between two calls
CacheTick ==
    /\ AllDone
    /\ now < MaxCacheTicks * CacheTickMs
    /\ now' = now + CacheTickMs
    /\ UNCHANGED <<users, questions, answers, cache, isConnected, isInitialized, calls, solver>>

InitCache ==
    /\ users = {"u1"}
    /\ questions = <<>>
    /\ answers = <<>>
    /\ cache = {}
    /\ isConnected \in BOOLEAN
    /\ isInitialized = TRUE
    /\ now = 0
    /\ calls = <<>>
    /\ solver = SolverIdle

NextCache ==
    \/ \E k \in CacheKeys : RedisOp("get", <<k>>, <<>>)
    \/ \E k \in CacheKeys, v \in CacheValues, t \in CacheTtls :
          RedisOp("set", <<k>>, <<CachePair(k, v, t)>>)
    \/ \E k \in CacheKeys : RedisOp("delete", <<k>>, <<>>)
    \/ \E k \in CacheKeys : RedisOp("exists", <<k>>, <<>>)
    \/ \E ks \in KeyLists : RedisOp("mget", ks, <<>>)
    \/ \E ps \in PairLists : RedisOp("mset", <<>>, ps)
    \/ RedisOp("flushAll", <<>>, <<>>)
    \/ Len(calls) < MaxCacheOps /\ StartHistory("u1", HistoryLimit)
    \/ StartSubmitAlone
    \/ \E c \in 1..Len(calls) :
          \/ HistoryCacheGet(c)
          \/ HistoryGetUser(c)
          \/ HistoryQuery(c)
          \/ HistoryCacheSet(c)
          \/ SubmitGetUser(c)
          \/ SubmitCacheGet(c)
          \/ SubmitHitCreateQuestion(c)
          \/ SubmitHitCreateAnswer(c)
          \/ SubmitCreateQuestion(c)
          \/ SubmitSetProcessing(c)
          \/ SubmitSolve(c)
          \/ SubmitCreateAnswer(c)
          \/ SubmitSetCompleted(c)
          \/ SubmitCacheSet(c)
          \/ SubmitSetFailed(c)
    \/ RedisReady
    \/ RedisEnd
    \/ CacheTick
    \/ RedisExpire

SpecCache == InitCache /\ [][NextCache]_vars

----------------------------------------------------------------------------
(* Claims about the cache adapter *)

RedisCalls == {c \in 1..Len(calls) : calls[c].op = "redis"}
Histories == {c \in 1..Len(calls) : calls[c].op = "history"}
\* A set that returned true, directly followed by a get of the same key
SetThenGet == {s \in RedisCalls : /\ s + 1 \in RedisCalls
                                  /\ calls[s].method = "set" /\ calls[s].flag
                                  /\ calls[s + 1].method = "get"
                                  /\ calls[s + 1].keys = calls[s].keys}
Elapsed(s) == calls[s + 1].at - calls[s].at
TtlMs(s) == calls[s].pairs[1].ttlSeconds * 1000
KeysOf(keyspace) == {e.key : e \in keyspace}

\* C13 as claimed: set(key, value, ttl) followed by get(key) before ttl seconds
\* have elapsed returns value; a get(key) once ttl seconds or more have elapsed
\* returns a miss and the entry is removed from the cache.
C13_RoundTripWithTtl ==
    \A s \in SetThenGet :
        calls[s + 1].up
        => /\ Elapsed(s) < TtlMs(s) => calls[s + 1].data = <<calls[s].pairs[1].value>>
           /\ Elapsed(s) >= TtlMs(s)
              => /\ calls[s + 1].data = <<NoAnswerResponse>>
                 /\ calls[s].keys[1] \notin KeysOf(calls[s + 1].after)

\* C13 amended: with the cache available at the get, a get(key) directly after a
\* successful set(key, value, ttl) returns value while less than ttl seconds have
\* elapsed; once more than ttl seconds have elapsed it returns a miss, and the
\* entry is gone afterwards unless the delete of the stale entry failed; at
\* exactly ttl seconds it returns value or a miss.
C13_RoundTripStrictlyPastTtl ==
    \A s \in SetThenGet :
        /\ (Elapsed(s) < TtlMs(s) /\ calls[s + 1].up)
           => calls[s + 1].data = <<calls[s].pairs[1].value>>
        /\ Elapsed(s) > TtlMs(s)
           => /\ calls[s + 1].data = <<NoAnswerResponse>>
              /\ (calls[s + 1].up /\ calls[s + 1].delFailed = {})
                 => calls[s].keys[1] \notin KeysOf(calls[s + 1].after)
        /\ Elapsed(s) = TtlMs(s)
           => calls[s + 1].data \in {<<calls[s].pairs[1].value>>, <<NoAnswerResponse>>}

\* C13 witness: a get more than ttl seconds after the set found the stale entry,
\* returned a miss and removed it
C13_Witness ==
    \E s \in SetThenGet :
        /\ Elapsed(s) > TtlMs(s)
        /\ calls[s + 1].up
        /\ calls[s].keys[1] \in KeysOf(calls[s + 1].before)
        /\ calls[s + 1].data = <<NoAnswerResponse>>
        /\ calls[s].keys[1] \notin KeysOf(calls[s + 1].after)

\* the number of values a call of the adapter returns
ValuesReturned(c) == CASE calls[c].method = "get" -> 1
                       [] calls[c].method = "mget" -> Len(calls[c].keys)
                       [] OTHER -> 0

\* C14: a call of the adapter made while the cache is disconnected or while the
\* client errors returns a miss / false, leaves the keyspace alone and does not
\* raise; a submit or a history of an existing user whose lookup found the
\* cache unavailable takes the cache-miss path, raises only when the store
\* fails, and when it reaches its cache write it returns the answer (the
\* history) of the store whether or not that write worked.
C14_CacheDegradesToMiss ==
    /\ \A c \in RedisCalls :
          ~calls[c].up
          => /\ ~calls[c].raised
             /\ ~calls[c].flag
             /\ calls[c].data = [i \in 1..ValuesReturned(c) |-> NoAnswerResponse]
             /\ calls[c].after = calls[c].before
    /\ \A c \in Submits :
          (Finished(c) /\ InTrace(c, "cacheGet") /\ ~calls[c].lookupUp)
          => /\ Miss(c)
             /\ calls[c].result.kind = "raised"
                <=> Last(calls[c].trace) \in {"createQuestion:throw", "createQuestion:norow",
                                              "setProcessing:throw", "setFailed:throw"}
             /\ Last(calls[c].trace) = "cacheSet"
                => /\ InTrace(c, "solve")
                   /\ calls[c].result.kind = "answer"
                   /\ calls[c].result.id = calls[c].qid
                   /\ calls[c].result.status = "completed"
                   /\ calls[c].result.answer.steps = calls[c].aiResponse.steps
                   /\ calls[c].result.answer.final_answer = calls[c].aiResponse.final_answer
    /\ \A c \in Histories :
          (Finished(c) /\ ~calls[c].lookupUp)
          => /\ calls[c].cached = NoAnswerResponse
             /\ calls[c].result.kind = "raised"
                <=> Last(calls[c].trace) \in {"getUser:throw", "query:throw"}
             /\ calls[c].result.kind # "raised"
                => /\ calls[c].trace = <<"cacheGet", "getUser", "query", "cacheSet">>
                   /\ calls[c].result = HistoryResult(calls[c].pending[1])
                   /\ c = Len(calls)
                      => calls[c].result.history =
                            GetUserHistory(calls[c].userId, HistoryPage, calls[c].limit)

\* C14 witness: a submit that found the cache unavailable completed on the
\* cache-miss path and stored its answer once the connection was back; then a
\* get of that key made while the cache was unavailable returned a miss and
\* left the entry alone
C14_Witness ==
    \E c \in Submits : \E g \in RedisCalls :
        /\ Finished(c) /\ ~calls[c].lookupUp /\ calls[c].stored
        /\ calls[c].result.kind = "answer"
        /\ calls[g].method = "get" /\ ~calls[g].up
        /\ calls[g].keys = <<calls[c].cacheKey>>
        /\ calls[c].cacheKey \in KeysOf(calls[g].before)
        /\ calls[g].data = <<NoAnswerResponse>>
        /\ calls[g].after = calls[g].before

----------------------------------------------------------------------------
(* More claims about the bulk workflow *)

BulkItems == {<<c, i>> : c \in Bulks, i \in 1..MaxBulkItems}
ItemOf(ci) == calls[ci[1]].items[ci[2]]
ItemsOf == {ci \in BulkItems : ci[2] \in 1..Len(calls[ci[1]].items)}
ItemInTrace(item, name) == \E k \in 1..Len(item.trace) : item.trace[k] = name

\* C23: a bulk batch leaves the cache as it found it, and every item that gets
\* as far as persisting an Answer has invoked the Solver, also when its text
\* is in the cache and the cache is available.
C23_BulkBypassesCache ==
    /\ cache = BulkCache
    /\ \A ci \in ItemsOf :
          (ItemOf(ci).pc \in {"createAnswer", "setCompleted"} \/ ItemOf(ci).entry.success)
          => /\ ItemInTrace(ItemOf(ci), "solve")
             /\ ~ItemInTrace(ItemOf(ci), "cacheGet")

\* C23 witness: an item whose text has a live entry in the available cache was
\* solved and succeeded, and the batch returned with the cache as it was
C23_Witness ==
    \E ci \in ItemsOf :
        /\ calls[ci[1]].pc = "done"
        /\ isConnected
        /\ HasKey(GenerateQuestionCacheKey(ItemOf(ci).question))
        /\ now <= EntryOf(GenerateQuestionCacheKey(ItemOf(ci).question)).expires_at
        /\ ItemOf(ci).entry.success
        /\ ItemInTrace(ItemOf(ci), "solve")
        /\ cache = BulkCache

\* C26 as claimed: a Question whose status is `completed` has an Answer row.
C26_CompletedHasAnswer ==
    \A q \in 1..Len(questions) :
        questions[q].status = "completed" => AnswersOf(q) # {}

\* C30: a bulk item that failed after its Question row was created is reported
\* as failed with no question id, its row is still `pending` or `processing`,
\* and no row of the store is `failed`.
C30_BulkNeverSetsFailed ==
    /\ \A q \in 1..Len(questions) : questions[q].status # "failed"
    /\ \A ci \in ItemsOf :
          (ItemOf(ci).pc = "settled" /\ ~ItemOf(ci).entry.success /\ ItemOf(ci).qid > 0)
          => /\ questions[ItemOf(ci).qid].status \in {"pending", "processing"}
             /\ ItemOf(ci).entry.error # "none"
             /\ (calls[ci[1]].pc = "done"
                 => /\ ~calls[ci[1]].result.results[ci[2]].success
                    /\ calls[ci[1]].result.failed >= 1)

\* C30 witness: a returned batch with an item whose Answer insert threw and
\* whose Question is still `processing`, and one whose update to `processing`
\* threw and whose Question is still `pending`
C30_Witness ==
    \E ci \in ItemsOf : \E cj \in ItemsOf :
        /\ calls[ci[1]].pc = "done" /\ cj[1] = ci[1]
        /\ ItemInTrace(ItemOf(ci), "createAnswer:throw")
        /\ questions[ItemOf(ci).qid].status = "processing"
        /\ ItemInTrace(ItemOf(cj), "setProcessing:throw")
        /\ questions[ItemOf(cj).qid].status = "pending"

----------------------------------------------------------------------------
(* Concurrent submits of one cache key: submitQuestion takes no lock, so the *)
(* steps of two calls interleave at every await.                            *)

SameKeyRequests == {r \in Requests : r.userId \in users}

NextRace ==
    \/ \E r \in SameKeyRequests : StartSubmit(r.userId, r.question, r.questionType)
    \/ \E c \in 1..Len(calls) :
          \/ SubmitGetUser(c)
          \/ SubmitCacheGet(c)
          \/ SubmitHitCreateQuestion(c)
          \/ SubmitHitCreateAnswer(c)
          \/ SubmitCreateQuestion(c)
          \/ SubmitSetProcessing(c)
          \/ SubmitSolve(c)
          \/ SubmitCreateAnswer(c)
          \/ SubmitSetCompleted(c)
          \/ SubmitCacheSet(c)
          \/ SubmitSetFailed(c)

SpecRace == Init /\ [][NextRace]_vars

----------------------------------------------------------------------------
(* More claims about submit *)

\* Two finished submits of one cache key that both missed and both reached
\* the cache write
BothMissed(c, d) ==
    /\ c # d
    /\ calls[c].cacheKey = calls[d].cacheKey
    /\ Finished(c) /\ Miss(c) /\ Last(calls[c].trace) = "cacheSet"
    /\ Finished(d) /\ Miss(d) /\ Last(calls[d].trace) = "cacheSet"

OwnRows(c) ==
    /\ calls[c].qid \in 1..Len(questions)
    /\ questions[calls[c].qid].question_text = calls[c].question
    /\ InTrace(c, "solve")
    /\ calls[c].answerId \in AnswersOf(calls[c].qid)
    /\ calls[c].result.kind = "answer"
    /\ calls[c].result.id = calls[c].qid

\* the cache write of submit c happens in this step and reaches Redis
WritesCache(c) ==
    /\ calls[c].op = "submit" /\ calls[c].pc = "cacheSet"
    /\ calls'[c].pc = "done" /\ calls'[c].stored

\* C24: when two submits of the same cache key have both missed and both
\* completed, each has its own Question row, has invoked the Solver, has its
\* own Answer row and has returned an AnswerResult with its own Question id;
\* and every cache write that reaches Redis replaces the entry of the key, so
\* the cache holds the entry of whichever call wrote last, with its TTL.
C24_BothMissBothWrite ==
    [][ /\ \A c \in 1..Len(calls) :
              WritesCache(c)
              => /\ \E e \in cache' : /\ e.key = calls[c].cacheKey
                                      /\ e.data.id = calls[c].qid
                                      /\ e.expires_at = now + (QuestionTtlSeconds * 1000)
                 /\ Cardinality({e \in cache' : e.key = calls[c].cacheKey}) = 1
        /\ (\A c \in Submits : \A d \in Submits :
               BothMissed(c, d)
               => /\ calls[c].qid # calls[d].qid
                  /\ calls[c].answerId # calls[d].answerId
                  /\ OwnRows(c) /\ OwnRows(d))'
      ]_vars

\* C24 witness: two submits of one key both found the available cache empty,
\* both completed and both wrote; the cache holds the entry of the call that
\* started first, which wrote last
C24_Witness ==
    \E c \in Submits : \E d \in Submits :
        /\ c < d /\ BothMissed(c, d)
        /\ calls[c].lookupUp /\ calls[d].lookupUp
        /\ calls[c].stored /\ calls[d].stored
        /\ calls[c].qid # calls[d].qid
        /\ \E e \in cache : e.key = calls[c].cacheKey /\ e.data.id = calls[c].qid

\* C27: once a cache-miss submit d answered by the mock has stored its answer,
\* a later submit c of the same key that looks the cache up inside the TTL
\* with the cache available hits it and never invokes the Solver; the answer
\* it returns carries the mock's steps, final answer and explanation.
C27_MockSolutionIsCached ==
    \A c \in Submits : \A d \in calls[c].freshBefore :
        (calls[c].lookupUp /\ calls[d].backendsDown /\ calls[d].op = "submit"
            /\ GenerateQuestionCacheKey(calls[c].question) = calls[d].cacheKey)
        => LET mock == GetMockResponse(calls[d].question, calls[d].questionType)
           IN  /\ Hit(c)
               /\ ~InTrace(c, "solve")
               /\ calls[c].cached.steps = mock.steps
               /\ (Finished(c) /\ calls[c].result.kind = "answer")
                  => /\ calls[c].result.answer.steps = mock.steps
                     /\ calls[c].result.answer.final_answer = mock.final_answer
                     /\ calls[c].result.answer.explanation = mock.explanation

\* C27 witness: a finished submit that received the mock's solution from the cache
C27_Witness ==
    \E c \in Submits : \E d \in calls[c].freshBefore :
        /\ calls[c].lookupUp /\ calls[d].backendsDown
        /\ Finished(c) /\ Hit(c) /\ ~InTrace(c, "solve")
        /\ calls[c].result.kind = "answer"
        /\ calls[c].result.answer.steps =
              GetMockResponse(calls[d].question, calls[d].questionType).steps

\* C29 as claimed: the AnswerResult of a submit carries the submitted text and
\* the submitted category, on the cache-hit path and on the cache-miss path.
C29_ResultEchoesRequest ==
    \A c \in Submits :
        (Finished(c) /\ calls[c].result.kind = "answer")
        => /\ calls[c].result.answer.question = calls[c].question
           /\ calls[c].result.answer.question_type = calls[c].questionType

----------------------------------------------------------------------------
(* The history cache and the deletions: getUserHistory, deleteQuestion and *)
(* deleteUser called one after the other on a store that holds two         *)
(* Questions of u1.  A deleted row keeps its position as a tombstone, so   *)
(* that the ids of the other rows stay their positions.                    *)

MaxHistoryCalls == 3

HistoryLimits == {1, HistoryLimit}

\* The clock of this specification moves by one history TTL
HistoryTickMs == HistoryTtlSeconds * 1000

Tombstone(id) == [id |-> id, user_id |-> "", question_text |-> <<>>,
                  question_type |-> "other", status |-> "deleted"]

\* DELETE FROM questions for the ids, with the ON DELETE CASCADE of answers
QuestionsWithout(ids) ==
    [i \in 1..Len(questions) |-> IF i \in ids THEN Tombstone(i) ELSE questions[i]]
AnswersWithout(ids) ==
    [a \in 1..Len(answers) |->
        IF answers[a].question_id \in ids THEN [answers[a] EXCEPT !.question_id = 0]
        ELSE answers[a]]

DeleteResult(deleted) == [kind |-> "deleted", id |-> 0,
                          status |-> IF deleted THEN "true" ELSE "false",
                          error |-> "none", answer |-> NoAnswerResponse]

\* QuestionService.deleteQuestion: the DELETE and rowCount > 0; no cache call
DeleteQuestion(questionId) ==
    /\ AllDone
    /\ Len(calls) < MaxHistoryCalls
    /\ \E o \in StoreOutcomes :
          LET call == [NewCall("deleteQuestion", "none", <<>>, "other") EXCEPT !.qid = questionId]
              found == questionId \in 1..Len(questions)
                          /\ questions[questionId].status # "deleted"
          IN  IF o = "throw" THEN
                  /\ calls' = Append(calls, Return(call, "delete:throw", Raised("store error"),
                                                   questions))
                  /\ UNCHANGED <<questions, answers>>
              ELSE
                  /\ questions' = QuestionsWithout({questionId})
                  /\ answers' = AnswersWithout({questionId})
                  /\ calls' = Append(calls, Return(call, "delete", DeleteResult(found),
                                                   QuestionsWithout({questionId})))
    /\ UNCHANGED <<users, cache, isConnected, isInitialized, now, solver>>

\* UserService.deleteUser: getUserById, 'User not found', the DELETE with the
\* ON DELETE CASCADE of questions and answers; no cache call
DeleteUser(userId) ==
    /\ AllDone
    /\ Len(calls) < MaxHistoryCalls
    /\ \E o \in StoreOutcomes, p \in StoreOutcomes :
          LET call == NewCall("deleteUser", userId, <<>>, "other")
              owned == {i \in 1..Len(questions) : questions[i].user_id = userId}
          IN  IF o = "throw" THEN
                  /\ calls' = Append(calls, Return(call, "getUser:throw", Raised("store error"),
                                                   questions))
                  /\ UNCHANGED <<users, questions, answers>>
              ELSE IF userId \notin users THEN
                  /\ calls' = Append(calls, Return(call, "getUser", Raised("User not found"),
                                                   questions))
                  /\ UNCHANGED <<users, questions, answers>>
              ELSE IF p = "throw" THEN
                  /\ calls' = Append(calls, Return(Step(call, "getUser"), "delete:throw",
                                                   Raised("store error"), questions))
                  /\ UNCHANGED <<users, questions, answers>>
              ELSE
                  /\ users' = users \ {userId}
                  /\ questions' = QuestionsWithout(owned)
                  /\ answers' = AnswersWithout(owned)
                  /\ calls' = Append(calls, Return(Step(call, "getUser"), "delete",
                                                   DeleteResult(TRUE), QuestionsWithout(owned)))
    /\ UNCHANGED <<cache, isConnected, isInitialized, now, solver>>

StartHistoryCall(userId, limit) ==
    /\ Len(calls) < MaxHistoryCalls
    /\ StartHistory(userId, limit)

HistoryTick ==
    /\ AllDone
    /\ now < MaxTicks * HistoryTickMs
    /\ now' = now + HistoryTickMs
    /\ UNCHANGED <<users, questions, answers, cache, isConnected, isInitialized, calls, solver>>

\* The store and the cache after u1's submit of "x=1" (Question 1, cached) and
\* a bulk item of u1 with the same text (Question 2, not cached)
StoredSolution == GetMockResponse(<<"x","=","1">>, "algebra")
InitHistory ==
    /\ users = {"u1"}
    /\ questions = << [QuestionRow(1, "u1", <<"x","=","1">>, "algebra") EXCEPT
                          !.status = "completed"],
                      [QuestionRow(2, "u1", <<"x","=","1">>, "algebra") EXCEPT
                          !.status = "completed"] >>
    /\ answers = << [id |-> 1, question_id |-> 1, steps |-> StoredSolution.steps,
                     final_answer |-> StoredSolution.final_answer,
                     explanation |-> StoredSolution.explanation,
                     processing_time_ms |-> 120, ai_model_used |-> "mock"],
                    [id |-> 2, question_id |-> 2, steps |-> StoredSolution.steps,
                     final_answer |-> StoredSolution.final_answer,
                     explanation |-> StoredSolution.explanation,
                     processing_time_ms |-> 120, ai_model_used |-> "mock"] >>
    /\ cache = {[key |-> GenerateQuestionCacheKey(<<"x","=","1">>),
                 data |-> [id |-> 1, question |-> <<"x","=","1">>,
                           question_type |-> "algebra", status |-> "completed",
                           steps |-> StoredSolution.steps,
                           final_answer |-> StoredSolution.final_answer,
                           explanation |-> StoredSolution.explanation,
                           processing_time_ms |-> 120],
                 expires_at |-> QuestionTtlSeconds * 1000]}
    /\ isConnected = TRUE
    /\ isInitialized = TRUE
    /\ now = 0
    /\ calls = <<>>
    /\ solver = SolverIdle

NextHistory ==
    \/ \E u \in {"u1", "u2"}, l \in HistoryLimits : StartHistoryCall(u, l)
    \/ \E c \in 1..Len(calls) :
          \/ HistoryCacheGet(c)
          \/ HistoryGetUser(c)
          \/ HistoryQuery(c)
          \/ HistoryCacheSet(c)
    \/ \E q \in 1..2 : DeleteQuestion(q)
    \/ \E u \in {"u1", "u2"} : DeleteUser(u)
    \/ HistoryTick
    \/ RedisExpire

SpecHistory == InitHistory /\ [][NextHistory]_vars

----------------------------------------------------------------------------
(* Claims about the history cache and the deletions *)

\* The history calls that stored their page under the key c looks up, in an
\* entry whose TTL has not run out when c looks it up
PageWriters(c) ==
    {d \in Histories : /\ d < c
                       /\ calls[d].stored
                       /\ calls[d].userId = calls[c].userId
                       /\ calls[c].at < calls[d].expiresAt}
LastWriter(c) == CHOOSE d \in PageWriters(c) : \A e \in PageWriters(c) : e <= d

\* C21: a getHistory call that looks the cache up while it is available, after
\* a call for the same user and page has stored its page less than 300 s
\* before, returns the page the last such call stored, whatever its own page
\* size, and neither checks the user nor queries the store.
C21_HistoryKeyOmitsPageSize ==
    \A c \in Histories :
        (Finished(c) /\ calls[c].lookupUp /\ PageWriters(c) # {})
        => /\ calls[c].cacheKey = GenerateUserHistoryCacheKey(calls[c].userId, HistoryPage)
           /\ calls[c].result = calls[LastWriter(c)].result
           /\ calls[c].trace = <<"cacheGet">>

\* C21 witness: a call with page size 1 returned the two items a call with
\* page size 10 had cached, while the store would have returned one
C21_Witness ==
    \E c \in Histories :
        /\ Finished(c) /\ calls[c].lookupUp /\ PageWriters(c) # {}
        /\ calls[c].limit = 1
        /\ calls[LastWriter(c)].limit = HistoryLimit
        /\ Len(calls[c].result.history.questions) = 2
        /\ Len(GetUserHistory(calls[c].userId, HistoryPage, 1).questions) = 1

IsQuestionKey(key) == key = GenerateQuestionCacheKey(<<"x","=","1">>)

\* C22 as claimed: each unexpired cached answer refers to a Question that is
\* in the store together with its Answer, and each unexpired cached history
\* page equals a page the store would return now.
C22_CacheReproducible ==
    AllDone =>
    \A e \in cache :
        now < e.expires_at
        => IF IsQuestionKey(e.key)
           THEN /\ e.data.id \in 1..Len(questions)
                /\ questions[e.data.id].status # "deleted"
                /\ AnswersOf(e.data.id) # {}
           ELSE \E l \in HistoryLimits :
                   e.data = GetUserHistory(e.data.user_id, HistoryPage, l)

\* C28 as claimed: a getHistory call for a user that is not in the store when
\* the call is made fails with 'User not found' (or with the error of the
\* store, when the lookup of the user itself fails).
C28_HistoryOnlyForKnownUser ==
    \A c \in Histories :
        (Finished(c) /\ ~calls[c].userKnown)
        => /\ calls[c].result.kind = "raised"
           /\ Last(calls[c].trace) # "getUser:throw"
              => calls[c].result.error = "User not found"

----------------------------------------------------------------------------
(* UserService.createUser and UserController.createUser.  A users row is   *)
(* represented by its id; EmailOf gives the email of the row with that id. *)

Emails == {"a@x", "b@x"}
EmailOf == [id \in {"u1", "u3", "u4", "u5"} |->
               IF id \in {"u1", "u3"} THEN "a@x" ELSE "b@x"]
HeldBy(email) == {u \in users : EmailOf[u] = email}

NewCreateUser(email) ==
    [email |-> email, held |-> HeldBy(email) # {}]
    @@ [NewCall("createUser", "none", <<>>, "other") EXCEPT !.pc = "getUserByEmail"]

UserResult(id) == [kind |-> "user", id |-> 0, status |-> "none", error |-> "none",
                   answer |-> NoAnswerResponse, userId |-> id]

\* UserController.createUser: the status code of the response
HttpStatus(result) ==
    IF result.kind = "user" THEN 201
    ELSE IF result.error = "User with this email already exists" THEN 409
    ELSE 500

StartCreateUser(email) ==
    /\ Len(calls) < MaxCalls
    /\ calls' = Append(calls, NewCreateUser(email))
    /\ UNCHANGED <<users, questions, answers, cache, isConnected, isInitialized, now, solver>>

\* Lines 147-150: getUserByEmail, 'User with this email already exists'
CreateUserCheck(c) ==
    /\ calls[c].op = "createUser" /\ calls[c].pc = "getUserByEmail"
    /\ \E o \in StoreOutcomes :
          calls' = [calls EXCEPT ![c] =
              IF o = "throw"
              THEN Return(calls[c], "getUserByEmail:throw", Raised("store error"), questions)
              ELSE IF HeldBy(calls[c].email) # {}
              THEN Return(calls[c], "getUserByEmail",
                          Raised("User with this email already exists"), questions)
              ELSE [Step(calls[c], "getUserByEmail") EXCEPT !.pc = "insert"]]
    /\ UNCHANGED <<users, questions, answers, cache, isConnected, isInitialized, now, solver>>

\* Lines 152-162: userRepository.createUser, 'Failed to create user'; the
\* UNIQUE constraint on users.email rejects a second row with the same email,
\* and the error of the INSERT is thrown on as it is
CreateUserInsert(c) ==
    /\ calls[c].op = "createUser" /\ calls[c].pc = "insert"
    /\ \E o \in InsertOutcomes, id \in DOMAIN EmailOf \ users :
          /\ EmailOf[id] = calls[c].email
          /\ IF o = "throw" THEN
                 /\ calls' = [calls EXCEPT ![c] =
                       Return(calls[c], "insert:throw", Raised("store error"), questions)]
                 /\ UNCHANGED users
             ELSE IF HeldBy(calls[c].email) # {} THEN
                 /\ calls' = [calls EXCEPT ![c] =
                       Return(calls[c], "insert:duplicate",
                              Raised("duplicate key value violates unique constraint"),
                              questions)]
                 /\ UNCHANGED users
             ELSE IF o = "norow" THEN
                 /\ calls' = [calls EXCEPT ![c] =
                       Return(calls[c], "insert:norow", Raised("Failed to create user"),
                              questions)]
                 /\ UNCHANGED users
             ELSE
                 /\ users' = users \cup {id}
                 /\ calls' = [calls EXCEPT ![c] =
                       Return(calls[c], "insert", UserResult(id), questions)]
    /\ UNCHANGED <<questions, answers, cache, isConnected, isInitialized, now, solver>>

InitUsers ==
    /\ users = {"u1"}
    /\ questions = <<>>
    /\ answers = <<>>
    /\ cache = {}
    /\ isConnected \in BOOLEAN
    /\ isInitialized = TRUE
    /\ now = 0
    /\ calls = <<>>
    /\ solver = SolverIdle

NextUsers ==
    \/ \E e \in Emails : StartCreateUser(e)
    \/ \E c \in 1..Len(calls) :
          \/ CreateUserCheck(c)
          \/ CreateUserInsert(c)

SpecUsers == InitUsers /\ [][NextUsers]_vars

----------------------------------------------------------------------------
(* Claims about createUser *)

Creates == {c \in 1..Len(calls) : calls[c].op = "createUser"}
StoreFailed(c) == Last(calls[c].trace) \in {"getUserByEmail:throw", "insert:throw",
                                            "insert:norow"}

\* C25 as claimed: when the store works, a createUser for an email a user
\* holds reports Conflict (409) and creates no user; no two users hold one
\* email; and of two createUser calls for one free email one creates the
\* user and the other reports Conflict.
C25_DuplicateEmailConflict ==
    /\ \A e \in Emails : Cardinality(HeldBy(e)) <= 1
    /\ \A c \in Creates :
          (Finished(c) /\ calls[c].held /\ ~StoreFailed(c))
          => HttpStatus(calls[c].result) = 409
    /\ \A c \in Creates : \A d \in Creates :
          (/\ c # d /\ calls[c].email = calls[d].email
           /\ Finished(c) /\ Finished(d) /\ ~StoreFailed(c) /\ ~StoreFailed(d)
           /\ calls[c].result.kind = "user")
          => HttpStatus(calls[d].result) = 409

====
